---- MODULE Spec2Model ----
(***************************************************************************)
(* A model of vk-tower's registry (lib/vk_tower/registry.py): file         *)
(* discovery over priority-ordered registry roots, the lazily loaded       *)
(* profile store (iter_profiles / get_profile), and the profile            *)
(* dependency resolver.                                                    *)
(***************************************************************************)
EXTENDS Integers, Sequences, FiniteSets, TLC

VARIABLES
    files,      \* Registry.__profiles_files: the ProfilesFile objects, in discovery order
    profiles,   \* Registry.__profiles: insertion-ordered dict, a sequence of Profile
    loaded,     \* Registry.__loaded_profiles_files: set of RegistryFile.name
    iters,      \* the live iter_profiles() generators, one per consumer
    last,       \* the outcome of the most recent store operation (observer)
    roots,      \* the file system: per registry root, in priority order, its entries
    dpc,        \* Registry.__init__: the position of the file collection
    vkxml_files,            \* Registry.__vkxml_files
    profiles_files,         \* Registry.__profiles_files, as collected
    profiles_schema_files,  \* Registry.__profiles_schema_files
    ideps,      \* the outcome of the most recent get_profile_internal_deps call
    gdeps,      \* the outcome of the most recent get_profile_recursive_deps call
    trav,       \* a get_profile_recursive_deps call in progress: its locals
    vkq,        \* the outcome of the most recent get_vk_xml_file call
    trim,       \* the outcome of the most recent trim_to_profile call
    pf,         \* a ProfilesFile: the content of its file, its __data, the parses so far
    xml,        \* the RegistryXML object: aliases, limits, struct_info
    xout        \* the outcome of the most recent XML model or normalizer operation

storeVars == <<files, profiles, loaded, iters, last>>

discVars == <<roots, dpc, vkxml_files, profiles_files, profiles_schema_files, vkq>>

depVars == <<ideps, gdeps, trav>>

docVars == <<trim, pf>>

xmlVars == <<xml, xout>>

vars == <<storeVars, discVars, depVars, docVars, xmlVars>>

----------------------------------------------------------------------------
(* Bounds *)

NumFiles == 2            \* profiles files discovered by the registry
MaxProfilesPerFile == 2  \* profiles defined by one profiles file
NumRoots == 2            \* registry roots
MaxEntriesPerRoot == 2   \* directory entries below one registry root
MaxRefs == 3             \* entries of all "profiles" lists of one profiles file
MaxStoreRefs == 2        \* the same, over all files of a multi-file store
MaxTrimRefs == 2         \* the same, for a file that is trimmed
MaxAliases == 3          \* entries of the alias table
MaxItems == 2            \* entries of a mapping or a sequence of a JSON tree
MaxTags == 3             \* comma-separated tags of a limittype attribute
MaxAccesses == 4         \* operations on one ProfilesFile object

----------------------------------------------------------------------------
(* Values *)

ProfileNames == {"VP_a", "VP_b", "VP_c"}

FileName(i) == <<"VP_file", i>>

\* Python's None, where a Profile is expected.
None == [name |-> "None", file |-> <<"None", 0>>]

\* Profile(name=name, file=file); the file is identified by its reg_file.name.
Profile(name, file) == [name |-> name, file |-> file.name]

NoError == [kind |-> "none", orig_profile |-> None, bad_reg_file |-> <<"None", 0>>]

Range(s) == {s[i] : i \in 1..Len(s)}

Injective(s) == \A i, j \in 1..Len(s) : s[i] = s[j] => i = j

----------------------------------------------------------------------------
(* dict helpers: a dict is a sequence of records with a unique name field *)

DictHas(tbl, name) == \E i \in 1..Len(tbl) : tbl[i].name = name

DictGet(tbl, name) ==
    IF DictHas(tbl, name)
    THEN tbl[CHOOSE i \in 1..Len(tbl) : tbl[i].name = name]
    ELSE None

\* dict.update: an existing key keeps its position and takes the new value,
\* a new key is appended.
RECURSIVE DictUpdate(_, _)
DictUpdate(tbl, new) ==
    IF new = <<>> THEN tbl
    ELSE LET p == Head(new)
             t == IF DictHas(tbl, p.name)
                  THEN [i \in 1..Len(tbl) |->
                            IF tbl[i].name = p.name THEN p ELSE tbl[i]]
                  ELSE Append(tbl, p)
         IN DictUpdate(t, Tail(new))

----------------------------------------------------------------------------
(* ProfilesFile *)

\* ProfilesFile.iter_profile_names: the keys of data["profiles"], in order.
iter_profile_names(file) ==
    [i \in 1..Len(file.profiles) |-> file.profiles[i].name]

----------------------------------------------------------------------------
(* Registry.__load_profiles_file *)

\* Faulty variants of the redefinition check: one that looks at the first
\* name of the file only, and one that never finds a redefinition.
RedefinedIndex_FirstNameOnly(tbl, names) ==
    IF names # <<>> /\ DictHas(tbl, names[1]) THEN 1 ELSE 0

RedefinedIndex_Never(tbl, names) == 0

\* The redefinition check: the first name of the file, in order, that is
\* already in the committed table (0 when there is none).
RedefinedIndex(tbl, names) ==
    IF \E i \in 1..Len(names) : DictHas(tbl, names[i])
    THEN CHOOSE i \in 1..Len(names) :
            /\ DictHas(tbl, names[i])
            /\ \A j \in 1..(i - 1) : ~DictHas(tbl, names[j])
    ELSE 0

\* The raise statement of the redefinition check.  Its argument list reads
\* the name reg_file, which is bound nowhere in the function or the module,
\* so evaluating the arguments raises NameError before any
\* ProfileRedefinitionError is constructed.
RaiseRedefinition(profile, file) ==
    [kind |-> "NameError", orig_profile |-> None, bad_reg_file |-> <<"None", 0>>]

\* The new profiles of a file: {name: Profile(name, file) for name in names}.
NewProfiles(file, names) ==
    [i \in 1..Len(names) |-> Profile(names[i], file)]

\* Faulty variant: only the first new profile reaches the committed table.
CommitProfiles_FirstOnly(tbl, new) ==
    DictUpdate(tbl, IF new = <<>> THEN new ELSE <<Head(new)>>)

\* self.__profiles.update(profiles)
CommitProfiles(tbl, new) == DictUpdate(tbl, new)

\* Faulty variant: the first new profile is committed but never yielded.
YieldNew_DropFirst(new) ==
    IF new = <<>> THEN new ELSE Tail(new)

\* for x in profiles.values(): yield x
YieldNew(new) == new

\* One run of the generator body up to its first yield.  st is the pair of
\* committed table and loaded set; the result carries the new store, the
\* outcome and the profiles the generator goes on to yield.
load_profiles_file(st, file) ==
    IF file.name \in st.loaded
    THEN [st |-> st, out |-> "skip", err |-> NoError, yields |-> <<>>]
    ELSE LET names == iter_profile_names(file)
             bad   == RedefinedIndex(st.profiles, names)
         IN IF bad # 0
            THEN [st |-> st, out |-> "raise",
                  err |-> RaiseRedefinition(DictGet(st.profiles, names[bad]), file),
                  yields |-> <<>>]
            ELSE LET new == NewProfiles(file, names)
                 IN [st |-> [profiles |-> CommitProfiles(st.profiles, new),
                             loaded   |-> st.loaded \cup {file.name}],
                     out |-> "ok", err |-> NoError, yields |-> YieldNew(new)]

\* Observer: the most recent load of a not-yet-loaded file that defines a
\* name already committed, with the store before and after it.
NoLoad == [valid |-> FALSE, file |-> <<"None", 0>>,
           pre |-> [profiles |-> <<>>, loaded |-> {}],
           post |-> [profiles |-> <<>>, loaded |-> {}],
           out |-> "none", err |-> NoError]

Collides(st, file) ==
    /\ file.name \notin st.loaded
    /\ \E n \in Range(iter_profile_names(file)) : DictHas(st.profiles, n)

LogLoad(log, st, file, r) ==
    IF Collides(st, file)
    THEN [valid |-> TRUE, file |-> file.name, pre |-> st, post |-> r.st,
          out |-> r.out, err |-> r.err]
    ELSE log

----------------------------------------------------------------------------
(* Registry.__lazy_load_profiles *)

Store == [profiles |-> profiles, loaded |-> loaded]

\* Resume the generator at file number i: load files in discovery order
\* until one of them yields a profile, the files are exhausted, or a load
\* raises.  A file that is already loaded, or defines no profile, yields
\* nothing and the loop moves on within the same step.
RECURSIVE lazy_load_profiles(_, _, _)
lazy_load_profiles(st, log, i) ==
    IF i > Len(files)
    THEN [out |-> "stop", st |-> st, log |-> log, fidx |-> i, p |-> None,
          pending |-> <<>>, err |-> NoError]
    ELSE LET r    == load_profiles_file(st, files[i])
             log2 == LogLoad(log, st, files[i], r)
         IN IF r.out = "raise"
            THEN [out |-> "raise", st |-> r.st, log |-> log2, fidx |-> i,
                  p |-> None, pending |-> <<>>, err |-> r.err]
            ELSE IF r.yields # <<>>
            THEN [out |-> "yield", st |-> r.st, log |-> log2, fidx |-> i,
                  p |-> Head(r.yields), pending |-> Tail(r.yields),
                  err |-> NoError]
            ELSE lazy_load_profiles(r.st, log2, i + 1)

----------------------------------------------------------------------------
(* Registry.iter_profiles: a generator, advanced one next() at a time *)

NoIter == [pc |-> "none", used |-> 0, pos |-> 0, fidx |-> 0, pending |-> <<>>,
           yielded |-> <<>>, clean |-> TRUE,
           start |-> [profiles |-> <<>>, loaded |-> {}]]

\* The consumers that hold an iter_profiles() generator.
Iters == {"consumer"}

\* Every other live generator has seen a foreign store operation.
Disturb(its, i) ==
    [j \in Iters |-> IF j # i /\ its[j].pc \in {"new", "values", "lazy"}
                     THEN [its[j] EXCEPT !.clean = FALSE]
                     ELSE its[j]]

\* reg.iter_profiles(): creates the generator; its body has not run yet.
\* A consumer that holds an earlier generator drops it.
IterNew(i) ==
    /\ iters' = [iters EXCEPT ![i] =
                    [NoIter EXCEPT !.pc = "new", !.start = Store]]
    /\ last' = [op |-> "iter_profiles", it |-> i, name |-> "", missing_ok |-> FALSE,
                pre |-> Store, post |-> Store, out |-> "created",
                value |-> None, err |-> NoError, log |-> NoLoad]
    /\ UNCHANGED <<files, profiles, loaded>>
    /\ UNCHANGED <<discVars, depVars, docVars, xmlVars>>

RuntimeError == [kind |-> "RuntimeError", orig_profile |-> None,
                 bad_reg_file |-> <<"None", 0>>]

\* The step of the generator from its current position to its next yield,
\* its end, or an exception.
iter_profiles_next(it, st) ==
    LET used == IF it.pc = "new" THEN Len(st.profiles) ELSE it.used
        pos  == IF it.pc = "new" THEN 0 ELSE it.pos
        lazy(from) ==
            LET r == lazy_load_profiles(st, NoLoad, from)
            IN [it |-> [it EXCEPT
                          !.pc = CASE r.out = "yield" -> "lazy"
                                   [] r.out = "stop"  -> "done"
                                   [] OTHER           -> "raised",
                          !.used = used, !.pos = pos,
                          !.fidx = r.fidx, !.pending = r.pending,
                          !.yielded = IF r.out = "yield"
                                      THEN Append(it.yielded, r.p)
                                      ELSE it.yielded],
                st |-> r.st, out |-> r.out, value |-> r.p, err |-> r.err,
                log |-> r.log]
    IN IF it.pc \in {"new", "values"}
       THEN \* for x in self.__profiles.values(): yield x
            IF used # Len(st.profiles)
            THEN \* dictionary changed size during iteration
                 [it |-> [it EXCEPT !.pc = "raised"], st |-> st,
                  out |-> "raise", value |-> None, err |-> RuntimeError,
                  log |-> NoLoad]
            ELSE IF pos < Len(st.profiles)
            THEN [it |-> [it EXCEPT !.pc = "values", !.used = used,
                                    !.pos = pos + 1,
                                    !.yielded = Append(it.yielded,
                                                       st.profiles[pos + 1])],
                  st |-> st, out |-> "yield", value |-> st.profiles[pos + 1],
                  err |-> NoError, log |-> NoLoad]
            ELSE lazy(1)
       ELSE \* for x in self.__lazy_load_profiles(): yield x
            IF it.pending # <<>>
            THEN [it |-> [it EXCEPT !.pending = Tail(it.pending),
                                    !.yielded = Append(it.yielded,
                                                       Head(it.pending))],
                  st |-> st, out |-> "yield", value |-> Head(it.pending),
                  err |-> NoError, log |-> NoLoad]
            ELSE lazy(it.fidx + 1)

IterNext(i) ==
    /\ iters[i].pc \in {"new", "values", "lazy"}
    /\ LET r == iter_profiles_next(iters[i], Store)
       IN /\ profiles' = r.st.profiles
          /\ loaded' = r.st.loaded
          /\ iters' = [Disturb(iters, i) EXCEPT ![i] = r.it]
          /\ last' = [op |-> "next", it |-> i, name |-> "", missing_ok |-> FALSE,
                      pre |-> Store, post |-> r.st, out |-> r.out,
                      value |-> r.value, err |-> r.err, log |-> r.log]
    /\ UNCHANGED files
    /\ UNCHANGED <<discVars, depVars, docVars, xmlVars>>

----------------------------------------------------------------------------
(* Registry.get_profile *)

ProfileNotFoundError == [kind |-> "ProfileNotFoundError", orig_profile |-> None,
                         bad_reg_file |-> <<"None", 0>>]

\* for p in self.__lazy_load_profiles(): if p.name == name: return p
RECURSIVE get_profile_loop(_, _, _, _)
get_profile_loop(st, log, i, name) ==
    IF i > Len(files)
    THEN [out |-> "stop", st |-> st, log |-> log, value |-> None, err |-> NoError]
    ELSE LET r    == load_profiles_file(st, files[i])
             log2 == LogLoad(log, st, files[i], r)
         IN IF r.out = "raise"
            THEN [out |-> "raise", st |-> r.st, log |-> log2, value |-> None,
                  err |-> r.err]
            ELSE IF DictHas(r.yields, name)
            THEN [out |-> "return", st |-> r.st, log |-> log2,
                  value |-> DictGet(r.yields, name), err |-> NoError]
            ELSE get_profile_loop(r.st, log2, i + 1, name)

\* Faulty variant: the committed table is not consulted before loading.
get_profile_NoTableCheck(st, name, missing_ok) ==
    LET r == get_profile_loop(st, NoLoad, 1, name)
    IN IF r.out # "stop" THEN r
       ELSE IF missing_ok
       THEN [r EXCEPT !.out = "return"]
       ELSE [r EXCEPT !.out = "raise", !.err = ProfileNotFoundError]

get_profile(st, name, missing_ok) ==
    LET p == DictGet(st.profiles, name)
    IN IF p # None
       THEN [out |-> "return", st |-> st, log |-> NoLoad, value |-> p,
             err |-> NoError]
       ELSE LET r == get_profile_loop(st, NoLoad, 1, name)
            IN IF r.out # "stop" THEN r
               ELSE IF missing_ok
               THEN [r EXCEPT !.out = "return"]
               ELSE [r EXCEPT !.out = "raise", !.err = ProfileNotFoundError]

LookupNames == ProfileNames \cup {"VP_undefined"}

GetProfile(name, missing_ok) ==
    /\ LET r == get_profile(Store, name, missing_ok)
       IN /\ profiles' = r.st.profiles
          /\ loaded' = r.st.loaded
          /\ last' = [op |-> "get_profile", it |-> 0, name |-> name,
                      missing_ok |-> missing_ok, pre |-> Store, post |-> r.st,
                      out |-> r.out, value |-> r.value, err |-> r.err,
                      log |-> r.log]
    /\ iters' = Disturb(iters, "")
    /\ UNCHANGED files
    /\ UNCHANGED <<discVars, depVars, docVars, xmlVars>>

----------------------------------------------------------------------------
(* The profile store: Registry.__init__ followed by any sequence of        *)
(* iter_profiles() generators being created, advanced or dropped, and      *)
(* get_profile calls.                                                       *)

\* The key lists a profiles file can have: distinct names, in file order.
NameLists ==
    {s \in UNION {[1..n -> ProfileNames] : n \in 0..MaxProfilesPerFile} :
        Injective(s)}

\* A profiles file of the store spec: only the keys of "profiles" matter.
StoreFile(i, names) ==
    [name |-> FileName(i),
     profiles |-> [k \in 1..Len(names) |->
                     [name |-> names[k], profiles |-> <<>>,
                      capabilities |-> <<>>, optionals |-> <<>>]]]

NoLast == [op |-> "init", it |-> 0, name |-> "", missing_ok |-> FALSE,
           pre |-> [profiles |-> <<>>, loaded |-> {}],
           post |-> [profiles |-> <<>>, loaded |-> {}],
           out |-> "none", value |-> None, err |-> NoError, log |-> NoLoad]

----------------------------------------------------------------------------
(* File discovery: Registry.__collect_*_files over Config.iter_registry_paths *)

\* A directory entry below a registry root.  The file name is prefix + rest
\* + suffix; Path.stem is the name without the suffix.
Entry(dir, prefix, rest, suffix, isfile) ==
    [dir |-> dir, prefix |-> prefix, rest |-> rest, suffix |-> suffix,
     isfile |-> isfile]

EntryUniverse ==
    { Entry("", "vk", "", ".xml", TRUE),
      Entry("profiles", "VP_", "a", ".json", TRUE),
      Entry("profiles", "VP_", "a", ".json5", TRUE),
      Entry("profiles/sub", "VP_", "a", ".json", TRUE),
      Entry("profiles", "Vp_", "b", ".json", TRUE),
      Entry("profiles", "vp_", "c", ".json5", FALSE),
      Entry("schemas", "profiles-", "0", ".json", TRUE),
      Entry("schemas", "profiles-", "0", ".json5", TRUE),
      Entry("schemas/sub", "profiles-", "0", ".json", TRUE) }

\* The glob patterns, in the order the constructor walks them.
Globs ==
    << [type |-> "vkxml",           glob |-> "*.xml"],
       [type |-> "profiles",        glob |-> "profiles/**/*.json"],
       [type |-> "profiles",        glob |-> "profiles/**/*.json5"],
       [type |-> "profiles_schema", glob |-> "schemas/profiles-*.json"],
       [type |-> "profiles_schema", glob |-> "schemas/profiles-*.json5"] >>

\* Path.glob(pattern) applied to one entry.
GlobMatches(glob, e) ==
    CASE glob = "*.xml" ->
            e.dir = "" /\ e.suffix = ".xml"
      [] glob = "profiles/**/*.json" ->
            e.dir \in {"profiles", "profiles/sub"} /\ e.suffix = ".json"
      [] glob = "profiles/**/*.json5" ->
            e.dir \in {"profiles", "profiles/sub"} /\ e.suffix = ".json5"
      [] glob = "schemas/profiles-*.json" ->
            e.dir = "schemas" /\ e.prefix = "profiles-" /\ e.suffix = ".json"
      [] glob = "schemas/profiles-*.json5" ->
            e.dir = "schemas" /\ e.prefix = "profiles-" /\ e.suffix = ".json5"

\* Registry.__iter_glob_files for one root: the regular files the glob finds.
iter_glob_files(glob, r) ==
    {e \in roots[r] : GlobMatches(glob, e) /\ e.isfile}

\* re.match(r"^(?:VP|vp)_.+\.(?:json|json5)$", path.name)
ProfilesNameMatches(e) ==
    /\ e.prefix \in {"VP_", "vp_"}
    /\ e.rest # ""
    /\ e.suffix \in {".json", ".json5"}

\* RegistryFile.from_path: the name is the file name for vkxml and the stem
\* for the two json kinds.
RegistryFile(type, r, e) ==
    [type |-> type,
     name |-> IF type = "vkxml" THEN <<e.prefix, e.rest, e.suffix>>
              ELSE <<e.prefix, e.rest>>,
     path |-> [root |-> r, entry |-> e]]

\* dict.setdefault(name, value): the first value stored under a key stays.
SetDefault(tbl, f) ==
    IF DictHas(tbl, f.name) THEN tbl ELSE Append(tbl, f)

DiscoveryDone == dpc.glob > Len(Globs)

\* One iteration of a collection loop: the glob of the current root yields
\* one more path, in whatever order the directory scan produces them.
CollectFile ==
    /\ ~DiscoveryDone
    /\ LET g == Globs[dpc.glob]
       IN \E e \in iter_glob_files(g.glob, dpc.root) \ dpc.seen :
            LET f == RegistryFile(g.type, dpc.root, e)
            IN /\ dpc' = [dpc EXCEPT !.seen = @ \cup {e}]
               /\ vkxml_files' =
                     IF g.type = "vkxml" THEN SetDefault(vkxml_files, f)
                     ELSE vkxml_files
               /\ profiles_files' =
                     IF g.type = "profiles" /\ ProfilesNameMatches(e)
                     THEN SetDefault(profiles_files, f)
                     ELSE profiles_files
               /\ profiles_schema_files' =
                     IF g.type = "profiles_schema"
                     THEN SetDefault(profiles_schema_files, f)
                     ELSE profiles_schema_files
    /\ UNCHANGED <<roots, vkq>>
    /\ UNCHANGED <<storeVars, depVars, docVars, xmlVars>>

\* The glob of the current root is exhausted: on to the next root, and after
\* the last root to the next glob pattern.
NextRoot ==
    /\ ~DiscoveryDone
    /\ iter_glob_files(Globs[dpc.glob].glob, dpc.root) \subseteq dpc.seen
    /\ dpc' = IF dpc.root < Len(roots)
              THEN [glob |-> dpc.glob, root |-> dpc.root + 1, seen |-> {}]
              ELSE [glob |-> dpc.glob + 1, root |-> 1, seen |-> {}]
    /\ UNCHANGED <<roots, vkxml_files, profiles_files, profiles_schema_files, vkq>>
    /\ UNCHANGED <<storeVars, depVars, docVars, xmlVars>>

RootContents ==
    {S \in SUBSET EntryUniverse : Cardinality(S) <= MaxEntriesPerRoot}

----------------------------------------------------------------------------
(* JSON values of a profile object *)

\* An element of a "capabilities" or "optionals" list: a string, a nested
\* list, or a value of another JSON type.
Str(x) == [t |-> "str", s |-> x, l |-> <<>>]
List(x) == [t |-> "list", s |-> "", l |-> x]
Num == [t |-> "num", s |-> "", l |-> <<>>]

ProfileObj(name, deps, caps, opts) ==
    [name |-> name, profiles |-> deps, capabilities |-> caps, optionals |-> opts]

\* ProfilesFile.get_profile_obj(name, missing_ok=True): dig(data, "profiles",
\* name).  The result is the empty sequence for None, else the object.
get_profile_obj(file, name) ==
    IF DictHas(file.profiles, name)
    THEN <<DictGet(file.profiles, name)>>
    ELSE <<>>

----------------------------------------------------------------------------
(* ProfilesFile.get_profile_internal_deps *)

SelectNotIn(seq, S) ==
    LET Keep(x) == x \notin S IN SelectSeq(seq, Keep)

\* Faulty variant: only the first unvisited dependency is pushed.
PushDeps_FirstOnly(stack, obj, visited) ==
    LET new == SelectNotIn(obj.profiles, visited)
    IN IF new = <<>> THEN stack ELSE Append(stack, Head(new))

\* for dep_name in dig(profile_obj, "profiles", default=[]):
\*     if dep_name not in visited: stack.append(dep_name)
PushDeps(stack, obj, visited) ==
    stack \o SelectNotIn(obj.profiles, visited)

\* collect_profiles: the loop over the work stack.  debug is Python's
\* __debug__: assert statements run unless the interpreter is started with
\* -O.
RECURSIVE collect_profiles(_, _, _, _, _, _)
collect_profiles(file, stack, visited, local, external, debug) ==
    IF stack = <<>>
    THEN [out |-> "ok", local |-> local, external |-> external]
    ELSE LET profile_name == stack[Len(stack)]
             rest         == SubSeq(stack, 1, Len(stack) - 1)
         IN IF debug /\ profile_name \in visited
            THEN [out |-> "AssertionError", local |-> local,
                  external |-> external]
            ELSE LET visited2 == visited \cup {profile_name}
                     obj      == get_profile_obj(file, profile_name)
                 IN IF obj = <<>>
                    THEN collect_profiles(file, rest, visited2, local,
                                          external \cup {profile_name}, debug)
                    ELSE collect_profiles(file,
                                          PushDeps(rest, obj[1], visited2),
                                          visited2,
                                          local \cup {profile_name},
                                          external, debug)

\* Faulty variant: the optionals are left out.
ProfileCaps_NoOptionals(obj) == obj.capabilities

\* stack += profile_obj.get("capabilities", []);
\* stack += profile_obj.get("optionals", [])
ProfileCaps(obj) == obj.capabilities \o obj.optionals

\* collect_caps, for one profile: the loop over the stack of cap elements.
\* An element that is neither a string nor a list reaches the else branch,
\* whose message reads self.file, an attribute ProfilesFile does not have.
RECURSIVE collect_caps_loop(_, _)
collect_caps_loop(stack, caps) ==
    IF stack = <<>>
    THEN [out |-> "ok", caps |-> caps]
    ELSE LET cap  == stack[Len(stack)]
             rest == SubSeq(stack, 1, Len(stack) - 1)
         IN CASE cap.t = "str"  -> collect_caps_loop(rest, caps \cup {cap.s})
              [] cap.t = "list" -> collect_caps_loop(rest \o cap.l, caps)
              [] OTHER          -> [out |-> "AttributeError", caps |-> caps]

\* collect_caps: over the local profiles, in the set's iteration order.
RECURSIVE collect_caps(_, _, _)
collect_caps(file, names, caps) ==
    IF names = {}
    THEN [out |-> "ok", caps |-> caps]
    ELSE LET n == CHOOSE x \in names : TRUE
             r == collect_caps_loop(ProfileCaps(DictGet(file.profiles, n)), caps)
         IN IF r.out # "ok"
            THEN [out |-> r.out, caps |-> {}]
            ELSE collect_caps(file, names \ {n}, r.caps)

\* The ProfileInternalDeps the call returns, or the exception it raises.
get_profile_internal_deps(file, main_profile_name, debug) ==
    LET p == collect_profiles(file, <<main_profile_name>>, {}, {}, {}, debug)
    IN IF p.out # "ok"
       THEN [out |-> p.out, local_profile_names |-> {}, local_cap_names |-> {},
             external_profile_names |-> {}]
       ELSE LET c == collect_caps(file, p.local, {})
            IN IF c.out # "ok"
               THEN [out |-> c.out, local_profile_names |-> {},
                     local_cap_names |-> {}, external_profile_names |-> {}]
               ELSE [out |-> "ok", local_profile_names |-> p.local,
                     local_cap_names |-> c.caps,
                     external_profile_names |-> p.external]

NoIDeps == [valid |-> FALSE, file |-> 0, start |-> "", debug |-> TRUE,
            out |-> "none", local_profile_names |-> {}, local_cap_names |-> {},
            external_profile_names |-> {}]

\* profile.file.get_profile_internal_deps(name) on a parsed profiles file.
InternalDeps(i, name, debug) ==
    /\ i \in 1..Len(files)
    /\ LET r == get_profile_internal_deps(files[i], name, debug)
       IN ideps' = [valid |-> TRUE, file |-> i, start |-> name, debug |-> debug,
                    out |-> r.out,
                    local_profile_names |-> r.local_profile_names,
                    local_cap_names |-> r.local_cap_names,
                    external_profile_names |-> r.external_profile_names]
    /\ UNCHANGED <<gdeps, trav>>
    /\ UNCHANGED <<storeVars, discVars, docVars, xmlVars>>

----------------------------------------------------------------------------
(* Registry.get_profile_recursive_deps *)

Error(kind) ==
    [kind |-> kind, orig_profile |-> None, bad_reg_file |-> <<"None", 0>>]

\* profile.file: the ProfilesFile a Profile belongs to.
FileOf(profile) ==
    files[CHOOSE i \in 1..Len(files) : files[i].name = profile.file]

\* The orders in which a Python set can hand out its elements.
Orders(S) == {o \in [1..Cardinality(S) -> S] : Injective(o)}

\* ProfileCapability(profile, name) and its key.
ProfileCapability(profile, cap) ==
    [key |-> <<profile.name, cap>>, profile |-> profile, cap |-> cap]

\* gdeps.caps.setdefault(pc.key, pc) for every name of local_cap_names.
AddCaps(caps, profile, names) ==
    caps \cup {ProfileCapability(profile, c) :
                  c \in {c \in names : \A x \in caps : x.key # <<profile.name, c>>}}

\* Faulty variant: the capabilities are keyed by capability name alone, so
\* a name already recorded under another profile is not recorded again.
AddCaps_KeyedByCap(caps, profile, names) ==
    caps \cup {ProfileCapability(profile, c) :
                  c \in {c \in names : \A x \in caps : x.cap # c}}

\* The loop over ideps.external_profile_names, in the given order.  The
\* call self.get_profile(name) leaves missing_ok at its default, False.
RECURSIVE resolve_external(_, _, _, _, _)
resolve_external(st, stack, visited, undefined, names) ==
    IF names = <<>>
    THEN [out |-> "ok", st |-> st, stack |-> stack, undefined |-> undefined,
          err |-> NoError]
    ELSE LET name == Head(names)
         IN IF name \in visited
            THEN resolve_external(st, stack, visited, undefined, Tail(names))
            ELSE LET r == get_profile(st, name, FALSE)
                 IN IF r.out = "raise"
                    THEN [out |-> "raise", st |-> r.st, stack |-> stack,
                          undefined |-> undefined, err |-> r.err]
                    ELSE IF r.value = None
                    THEN resolve_external(r.st, stack, visited,
                                          undefined \cup {name}, Tail(names))
                    ELSE resolve_external(r.st, Append(stack, r.value),
                                          visited, undefined, Tail(names))

\* The loop over the traversal stack: the set of outcomes the call can
\* have, one for each iteration order of the sets it walks.
RECURSIVE recursive_deps_loop(_, _, _, _, _, _)
recursive_deps_loop(st, stack, visited, caps, undefined, debug) ==
    IF stack = <<>>
    THEN {[out |-> "ok", st |-> st, caps |-> caps, undefined |-> undefined,
           err |-> NoError]}
    ELSE LET profile  == stack[Len(stack)]
             rest     == SubSeq(stack, 1, Len(stack) - 1)
             visited2 == visited \cup {profile.name}
             i        == get_profile_internal_deps(FileOf(profile),
                                                   profile.name, debug)
         IN IF i.out # "ok"
            THEN {[out |-> "raise", st |-> st, caps |-> caps,
                   undefined |-> undefined, err |-> Error(i.out)]}
            ELSE LET caps2 == AddCaps(caps, profile, i.local_cap_names)
                 IN UNION {
                      LET c == resolve_external(st, rest, visited2, undefined, o)
                      IN IF c.out = "raise"
                         THEN {[out |-> "raise", st |-> c.st, caps |-> caps2,
                                undefined |-> c.undefined, err |-> c.err]}
                         ELSE recursive_deps_loop(c.st, c.stack, visited2,
                                                  caps2, c.undefined, debug)
                      : o \in Orders(i.external_profile_names)}

get_profile_recursive_deps(st, name, debug) ==
    LET m == get_profile(st, name, FALSE)
    IN IF m.out = "raise"
       THEN {[out |-> "raise", st |-> m.st, caps |-> {}, undefined |-> {},
              err |-> m.err]}
       ELSE recursive_deps_loop(m.st, <<m.value>>, {}, {}, {}, debug)

NoGDeps == [valid |-> FALSE, start |-> "", debug |-> TRUE, out |-> "none",
            err |-> NoError, caps |-> {}, undefined_profiles |-> {}]

RecursiveDeps(name, debug) ==
    /\ \E r \in get_profile_recursive_deps(Store, name, debug) :
          /\ profiles' = r.st.profiles
          /\ loaded' = r.st.loaded
          /\ gdeps' = [valid |-> TRUE, start |-> name, debug |-> debug,
                       out |-> r.out, err |-> r.err, caps |-> r.caps,
                       undefined_profiles |-> r.undefined]
    /\ UNCHANGED <<files, iters, last, ideps, trav>>
    /\ UNCHANGED <<discVars, docVars, xmlVars>>

\* The same call taken one iteration of its while loop at a time.  trav
\* holds the locals of the call: stack, visited and gdeps.
NoTrav ==
    [pc |-> "idle", start |-> "", debug |-> TRUE, stack |-> <<>>,
     visited |-> {}, caps |-> {}, undefined_profiles |-> {}, err |-> NoError,
     pops |-> 0]

\* main_profile = self.get_profile(name, missing_ok=False); the stack is
\* seeded with it.
TraverseCall(name, debug) ==
    /\ trav.pc = "idle"
    /\ LET m == get_profile(Store, name, FALSE)
       IN /\ profiles' = m.st.profiles
          /\ loaded' = m.st.loaded
          /\ trav' = IF m.out = "raise"
                     THEN [NoTrav EXCEPT !.pc = "raised", !.start = name,
                                         !.debug = debug, !.err = m.err]
                     ELSE [NoTrav EXCEPT !.pc = "loop", !.start = name,
                                         !.debug = debug,
                                         !.stack = <<m.value>>]
    /\ UNCHANGED <<files, iters, last, ideps, gdeps>>
    /\ UNCHANGED <<discVars, docVars, xmlVars>>

\* while stack: the test of the loop.
StackDone(stack) == stack = <<>>

\* One evaluation of the loop test and, when the stack is not empty, one
\* iteration of the body: a pop, the internal dependencies of the popped
\* profile, and the pushes of its external profiles in the order the set
\* hands them out.  The result is the set of the states the iteration can
\* end in, as the locals of the call and the store.
traverse_step(st, t) ==
    IF StackDone(t.stack)
    THEN {[trav |-> [t EXCEPT !.pc = "returned"], st |-> st]}
    ELSE LET profile  == t.stack[Len(t.stack)]
             rest     == SubSeq(t.stack, 1, Len(t.stack) - 1)
             visited2 == t.visited \cup {profile.name}
             i        == get_profile_internal_deps(FileOf(profile),
                                                   profile.name, t.debug)
         IN IF i.out # "ok"
            THEN {[trav |-> [t EXCEPT !.pc = "raised", !.stack = rest,
                                      !.visited = visited2,
                                      !.err = Error(i.out),
                                      !.pops = @ + 1],
                   st |-> st]}
            ELSE {LET c == resolve_external(st, rest, visited2,
                                            t.undefined_profiles, o)
                  IN [trav |-> [t EXCEPT
                                  !.pc = IF c.out = "raise" THEN "raised"
                                         ELSE "loop",
                                  !.stack = c.stack,
                                  !.visited = visited2,
                                  !.caps = AddCaps(@, profile, i.local_cap_names),
                                  !.undefined_profiles = c.undefined,
                                  !.err = c.err,
                                  !.pops = @ + 1],
                      st |-> c.st]
                  : o \in Orders(i.external_profile_names)}

TraverseStep ==
    /\ trav.pc = "loop"
    /\ \E r \in traverse_step(Store, trav) :
          /\ trav' = r.trav
          /\ profiles' = r.st.profiles
          /\ loaded' = r.st.loaded
    /\ UNCHANGED <<files, iters, last, ideps, gdeps>>
    /\ UNCHANGED <<discVars, docVars, xmlVars>>

----------------------------------------------------------------------------
(* The profiles files of the dependency specifications *)

DocNames == <<"VP_apple", "VP_banana", "VP_canteloupe", "VP_durian">>

RefSources == {"VP_apple", "VP_banana", "VP_canteloupe"}

RefTargets == {"VP_apple", "VP_banana", "VP_canteloupe", "VP_zebra"}

StartNames == Range(DocNames) \cup {"VP_zebra"}

\* The capability lists of the profiles: the file of the ProfileInternalDeps
\* docstring; one with deeper nesting, shared names and an empty list; one
\* with an element that is neither a string nor a list.
CapTables ==
    << [n \in Range(DocNames) |->
          CASE n = "VP_apple" ->
                  [capabilities |-> <<Str("cap_00"),
                                      List(<<Str("cap_01"), Str("cap_02")>>)>>,
                   optionals |-> <<>>]
            [] n = "VP_banana" ->
                  [capabilities |-> <<Str("cap_03"), Str("cap_04")>>,
                   optionals |-> <<Str("cap_05")>>]
            [] n = "VP_canteloupe" ->
                  [capabilities |-> <<Str("cap_06")>>, optionals |-> <<>>]
            [] OTHER ->
                  [capabilities |-> <<Str("cap_07")>>, optionals |-> <<>>]],
       [n \in Range(DocNames) |->
          CASE n = "VP_apple" ->
                  [capabilities |->
                      <<List(<<Str("cap_00"), List(<<Str("cap_01")>>)>>)>>,
                   optionals |-> <<List(<<>>), Str("cap_03")>>]
            [] n = "VP_banana" ->
                  [capabilities |-> <<>>, optionals |-> <<>>]
            [] n = "VP_canteloupe" ->
                  [capabilities |-> <<Str("cap_00")>>,
                   optionals |-> <<Str("cap_06")>>]
            [] OTHER ->
                  [capabilities |-> <<Str("cap_07")>>, optionals |-> <<>>]],
       [n \in Range(DocNames) |->
          CASE n = "VP_apple" ->
                  [capabilities |-> <<Str("cap_00")>>, optionals |-> <<>>]
            [] n = "VP_banana" ->
                  [capabilities |-> <<Str("cap_03")>>, optionals |-> <<>>]
            [] n = "VP_canteloupe" ->
                  [capabilities |-> <<Str("cap_06"), List(<<Num>>)>>,
                   optionals |-> <<>>]
            [] OTHER ->
                  [capabilities |-> <<Str("cap_07")>>, optionals |-> <<>>]] >>

\* The references of a file: a sequence of (profile, referenced name) pairs,
\* grouped by profile in the order of DocNames.
RefLists ==
    LET Pairs == RefSources \X RefTargets
        Rank(n) == CHOOSE k \in 1..Len(DocNames) : DocNames[k] = n
    IN {r \in UNION {[1..n -> Pairs] : n \in 0..MaxRefs} :
           \A i \in 1..(Len(r) - 1) : Rank(r[i][1]) <= Rank(r[i + 1][1])}

RefsOf(refs, n) ==
    LET Mine(pr) == pr[1] = n
        mine == SelectSeq(refs, Mine)
    IN [k \in 1..Len(mine) |-> mine[k][2]]

\* The profiles file with the given defined profiles, references and
\* capability table.
DocFile(i, defined, refs, caps) ==
    LET IsDefined(n) == n \in defined
        names == SelectSeq(DocNames, IsDefined)
    IN [name |-> FileName(i),
        profiles |-> [k \in 1..Len(names) |->
                        ProfileObj(names[k], RefsOf(refs, names[k]),
                                   caps[names[k]].capabilities,
                                   caps[names[k]].optionals)]]

DefinedSets ==
    {{"VP_apple", "VP_durian"} \cup S : S \in SUBSET {"VP_banana", "VP_canteloupe"}}

\* The capability lists of the profiles of a multi-file store: cap_00 is
\* required by two profiles.
StoreCaps ==
    [n \in ProfileNames |->
        CASE n = "VP_a" ->
                [capabilities |-> <<Str("cap_00"), List(<<Str("cap_01")>>)>>,
                 optionals |-> <<>>]
          [] n = "VP_b" ->
                [capabilities |-> <<Str("cap_00")>>,
                 optionals |-> <<Str("cap_02")>>]
          [] OTHER ->
                [capabilities |-> <<Str("cap_02")>>, optionals |-> <<>>]]

StoreNames == <<"VP_a", "VP_b", "VP_c">>

StoreRefLists ==
    LET Pairs == ProfileNames \X LookupNames
        Rank(n) == CHOOSE k \in 1..Len(StoreNames) : StoreNames[k] = n
    IN {r \in UNION {[1..n -> Pairs] : n \in 0..MaxStoreRefs} :
           \A i \in 1..(Len(r) - 1) : Rank(r[i][1]) <= Rank(r[i + 1][1])}

\* File i of a store in which owner maps every profile name to the number
\* of the file that defines it (0: no file does).
OwnedFile(i, owner, refs) ==
    LET Mine(n) == owner[n] = i
        names == SelectSeq(StoreNames, Mine)
    IN [name |-> FileName(i),
        profiles |-> [k \in 1..Len(names) |->
                        ProfileObj(names[k], RefsOf(refs, names[k]),
                                   StoreCaps[names[k]].capabilities,
                                   StoreCaps[names[k]].optionals)]]

----------------------------------------------------------------------------
(* Registry.get_vk_xml_file *)

NoVkq == [valid |-> FALSE, missing_ok |-> FALSE, out |-> "none", value |-> <<>>]

\* The key "vk.xml" of the vkxml table.
VkXmlName == <<"vk", "", ".xml">>

\* get_vk_xml_file: dict.get gives None for a missing key, and reading the
\* attribute name of None raises AttributeError.
get_vk_xml_file(tbl, missing_ok) ==
    LET reg_file == IF DictHas(tbl, VkXmlName)
                    THEN <<DictGet(tbl, VkXmlName)>>
                    ELSE <<>>
    IN IF reg_file = <<>>
       THEN [out |-> "AttributeError", value |-> <<>>]
       ELSE IF reg_file[1].name # <<>>
       THEN [out |-> "returned", value |-> reg_file]
       ELSE IF missing_ok
       THEN [out |-> "None", value |-> <<>>]
       ELSE [out |-> "RegistryFileNotFoundError", value |-> <<>>]

\* reg.get_vk_xml_file(missing_ok=...) on the constructed registry.
GetVkXmlFile(missing_ok) ==
    /\ DiscoveryDone
    /\ LET r == get_vk_xml_file(vkxml_files, missing_ok)
       IN vkq' = [valid |-> TRUE, missing_ok |-> missing_ok,
                  out |-> r.out, value |-> r.value]
    /\ UNCHANGED <<roots, dpc, vkxml_files, profiles_files, profiles_schema_files>>
    /\ UNCHANGED <<storeVars, depVars, docVars, xmlVars>>

----------------------------------------------------------------------------
(* ProfilesFile.trim_to_profile *)

\* dict.pop(name) for every name outside good: the remaining entries keep
\* their order and their values.
PopOthers(tbl, good) ==
    LET Keep(e) == e.name \in good IN SelectSeq(tbl, Keep)

\* Faulty variant: the external profile names are not counted as good and
\* the start profile's own entry is dropped with the others.
TrimProfiles_DropStart(tbl, deps, start) ==
    PopOthers(tbl, deps.local_profile_names \ {start})

\* good_names = deps.local_profile_names | deps.external_profile_names
TrimProfiles(tbl, deps, start) ==
    PopOthers(tbl, deps.local_profile_names \cup deps.external_profile_names)

\* The call on a document whose tree holds the "profiles" mapping and, when
\* has_capabilities, the top-level "capabilities" mapping.  Without the
\* latter, self.data.get("capabilities") is None and caps.keys() raises
\* AttributeError after the profiles were popped.
trim_to_profile(file, name, debug) ==
    LET deps == get_profile_internal_deps(file, name, debug)
    IN IF deps.out # "ok"
       THEN [out |-> deps.out, file |-> file, deps |-> deps]
       ELSE LET f1 == [file EXCEPT !.profiles = TrimProfiles(@, deps, name)]
            IN IF ~file.has_capabilities
               THEN [out |-> "AttributeError", file |-> f1, deps |-> deps]
               ELSE [out |-> "ok",
                     file |-> [f1 EXCEPT !.capabilities =
                                  PopOthers(@, deps.local_cap_names)],
                     deps |-> deps]

NoTrim == [valid |-> FALSE, file |-> 0, start |-> "", debug |-> TRUE,
           out |-> "none"]

\* file.trim_to_profile(name) on file number i of the registry.
Trim(i, name, debug) ==
    /\ i \in 1..Len(files)
    /\ LET r == trim_to_profile(files[i], name, debug)
       IN /\ files' = [files EXCEPT ![i] = r.file]
          /\ trim' = [valid |-> TRUE, file |-> i, start |-> name,
                      debug |-> debug, out |-> r.out, pre |-> files[i],
                      deps |-> r.deps]
    /\ UNCHANGED pf
    /\ UNCHANGED <<profiles, loaded, iters, last>>
    /\ UNCHANGED <<discVars, depVars, xmlVars>>

----------------------------------------------------------------------------
(* ProfilesFile.data *)

\* ProfilesFile.__init__: nothing is cached.  content is what the file on
\* disk holds, data the private field __data ("None" or the kind of the
\* cached value), parses the number of calls of json_load_path so far.
NoPf ==
    [content |-> "none", data |-> "None", parses |-> 0, ops |-> 0,
     op |-> "none", out |-> "none"]

\* What the file on disk holds: a JSON object, another JSON value, the JSON
\* value null, or text that is no JSON.
FileContents == {"dict", "list", "string", "number", "null", "malformed"}

NewProfilesFile(content) == [NoPf EXCEPT !.content = content]

\* The property data.  json_load_path raises JsonFileError for text that
\* does not parse, and then nothing is assigned.  Any parsed value is
\* assigned to __data before it is tested, null included (None in Python);
\* the test for a non-dict then fails on the name ProfileValidationError,
\* which the module never defines or imports.
data_get(f) ==
    IF f.data = "None"
    THEN CASE f.content = "malformed" ->
                [f EXCEPT !.parses = @ + 1, !.out = "JsonFileError"]
           [] f.content = "null" ->
                [f EXCEPT !.parses = @ + 1, !.out = "NameError"]
           [] f.content = "dict" ->
                [f EXCEPT !.parses = @ + 1, !.data = "dict", !.out = "returned"]
           [] OTHER ->
                [f EXCEPT !.parses = @ + 1, !.data = f.content,
                          !.out = "NameError"]
    ELSE [f EXCEPT !.out = "returned"]

\* The operations that reach the tree, with the number of times each
\* evaluates self.data when nothing raises: data itself; get_profile_obj;
\* the first next() of iter_profile_names; remove_optionals through
\* iter_profile_objs; get_profile_internal_deps, once per get_profile_obj
\* of the two traversals; trim_to_profile, which adds two more.
DataOps ==
    << [op |-> "data", n |-> 1],
       [op |-> "get_profile_obj", n |-> 1],
       [op |-> "iter_profile_names", n |-> 1],
       [op |-> "remove_optionals", n |-> 1],
       [op |-> "get_profile_internal_deps", n |-> 2],
       [op |-> "trim_to_profile", n |-> 4] >>

\* n evaluations of self.data in a row; the first one that raises ends the
\* operation.
RECURSIVE data_gets(_, _)
data_gets(f, n) ==
    IF n = 0 THEN f
    ELSE LET g == data_get(f)
         IN IF g.out # "returned" THEN g ELSE data_gets(g, n - 1)

\* One operation on the ProfilesFile object.
DataAccess(k) ==
    /\ pf.content # "none"
    /\ pf.ops < MaxAccesses
    /\ pf' = [data_gets(pf, DataOps[k].n) EXCEPT !.ops = @ + 1,
                                                 !.op = DataOps[k].op]
    /\ UNCHANGED trim
    /\ UNCHANGED <<storeVars, discVars, depVars, xmlVars>>

----------------------------------------------------------------------------
(* RegistryXML *)

\* RegistryXML.__init__: three empty tables.  aliases maps a name to its
\* alias; it is a function whose domain is the set of names with an entry.
NoXml == [aliases |-> <<>>, limits |-> <<>>, struct_info |-> <<>>]

NoXout == [op |-> "none", pc |-> "idle"]

\* MemberInfo and StructInfo; struct_info is a dict keyed by struct name,
\* the members of a struct a dict in declaration order.
MemberInfo(name, base_type) == [name |-> name, base_type |-> base_type]

StructInfo(name, members) == [name |-> name, members |-> members]

----------------------------------------------------------------------------
(* normalize_vk_name *)

\* Faulty variants of the loop body: one that returns after the first
\* replacement, and one that returns the name without consulting the table.
normalize_step_OneHop(aliases, name) ==
    IF name \notin DOMAIN aliases
    THEN [pc |-> "returned", name |-> name]
    ELSE [pc |-> "returned", name |-> aliases[name]]

normalize_step_NoLookup(aliases, name) ==
    [pc |-> "returned", name |-> name]

\* One iteration of the while loop: next_name = xml.aliases.get(name);
\* return name when there is no entry, else go on with next_name.
normalize_step(aliases, name) ==
    IF name \notin DOMAIN aliases
    THEN [pc |-> "returned", name |-> name]
    ELSE [pc |-> "loop", name |-> aliases[name]]

\* The value the call returns.  The loop has no cycle guard: the operator is
\* applied to tables without alias cycles only.
RECURSIVE normalize_vk_name(_, _)
normalize_vk_name(aliases, name) ==
    LET r == normalize_step(aliases, name)
    IN IF r.pc = "returned" THEN r.name ELSE normalize_vk_name(aliases, r.name)

\* No call is in progress.
XmlReady == xout.pc \in {"idle", "returned", "raised"}

\* normalize_vk_name(xml, name) is called: the loop is entered.
NormalizeCall(name) ==
    /\ XmlReady
    /\ xout' = [op |-> "normalize_vk_name", pc |-> "loop", input |-> name,
                name |-> name, again |-> FALSE]
    /\ UNCHANGED xml
    /\ UNCHANGED <<storeVars, discVars, depVars, docVars>>

\* normalize_vk_name is called on the name the previous call returned.
NormalizeAgain ==
    /\ xout.op = "normalize_vk_name"
    /\ xout.pc = "returned"
    /\ ~xout.again
    /\ xout' = [op |-> "normalize_vk_name", pc |-> "loop", input |-> xout.name,
                name |-> xout.name, again |-> TRUE]
    /\ UNCHANGED xml
    /\ UNCHANGED <<storeVars, discVars, depVars, docVars>>

\* The call in progress runs one iteration of its loop.
NormalizeStep ==
    /\ xout.op = "normalize_vk_name"
    /\ xout.pc = "loop"
    /\ LET r == normalize_step(xml.aliases, xout.name)
       IN xout' = [xout EXCEPT !.pc = r.pc, !.name = r.name]
    /\ UNCHANGED xml
    /\ UNCHANGED <<storeVars, discVars, depVars, docVars>>

\* The Vulkan names of the normalizer specification and its alias tables,
\* with and without cycles.
VkNames == {"OldX", "NewX", "Newest", "VkY"}

AliasTables ==
    UNION {[D -> VkNames] :
              D \in {D \in SUBSET VkNames : Cardinality(D) <= MaxAliases}}

----------------------------------------------------------------------------
(* RegistryXML.add_file *)

\* The names of the members of LimitType.
LimitTypeNames ==
    {"bitmask", "bits", "exact", "max", "min", "mul", "noauto", "not_", "pot",
     "range", "struct"}

\* LimitType.from_xml: the tag as a one-element sequence, or the empty
\* sequence for KeyError.  "not" gives the member not_, whose value is
\* "not"; every other member has its name as its value.
from_xml(x) ==
    CASE x = "not_" -> <<>>
      [] x = "not"  -> <<"not">>
      [] OTHER      -> IF x \in LimitTypeNames THEN <<x>> ELSE <<>>

\* Limit.LIMIT_TYPE_SLOTS
LIMIT_TYPE_SLOTS ==
    << {"bitmask", "bits", "exact", "max", "min", "noauto", "not", "range",
        "struct"},
       {"mul", "pot"} >>

\* Faulty variant: the second tag is not checked.
LimitShapeOk_FirstTagOnly(limit_types) ==
    /\ Len(limit_types) # 0
    /\ limit_types[1] \in LIMIT_TYPE_SLOTS[1]
    /\ Len(limit_types) < 3

\* Limit.__post_init__: TRUE when it raises nothing.
LimitShapeOk(limit_types) ==
    /\ Len(limit_types) # 0
    /\ limit_types[1] \in LIMIT_TYPE_SLOTS[1]
    /\ Len(limit_types) >= 2 => limit_types[2] \in LIMIT_TYPE_SLOTS[2]
    /\ Len(limit_types) < 3

\* The loop over member_elem.get("limittype").split(","): the tags, or the
\* failure at the first piece from_xml does not know.
RECURSIVE parse_tags(_, _)
parse_tags(pieces, acc) ==
    IF pieces = <<>> THEN [ok |-> TRUE, tags |-> acc]
    ELSE LET t == from_xml(Head(pieces))
         IN IF t = <<>> THEN [ok |-> FALSE, tags |-> acc]
            ELSE parse_tags(Tail(pieces), acc \o t)

\* The first two children of a member element are <type> and <name>.
MemberShapeOk(m) == m.children = <<"type", "name">>

Limit(struct, member, type, limit_types) ==
    [name |-> <<struct, member>>, struct |-> struct, member |-> member,
     type |-> type, limit_types |-> limit_types]

\* self.limits[limit.key] = limit
LimitsPut(limits, limit) ==
    IF DictHas(limits, limit.name)
    THEN [i \in 1..Len(limits) |->
             IF limits[i].name = limit.name THEN limit ELSE limits[i]]
    ELSE Append(limits, limit)

\* __parse_limit_types: the loop over the members with @limittype of one
\* struct element, from member number j on.
RECURSIVE limit_members(_, _, _)
limit_members(limits, struct_elem, j) ==
    IF j > Len(struct_elem.members)
    THEN [out |-> "ok", limits |-> limits]
    ELSE LET m == struct_elem.members[j]
         IN IF ~m.has_limittype
            THEN limit_members(limits, struct_elem, j + 1)
            ELSE IF ~MemberShapeOk(m)
            THEN [out |-> "XmlError", limits |-> limits]
            ELSE LET p == parse_tags(m.limittype, <<>>)
                 IN IF ~p.ok
                    THEN [out |-> "XmlError", limits |-> limits]
                    ELSE IF ~LimitShapeOk(p.tags)
                    THEN [out |-> "XmlError", limits |-> limits]
                    ELSE limit_members(
                             LimitsPut(limits,
                                       Limit(struct_elem.name, m.name_text,
                                             m.type_text, p.tags)),
                             struct_elem, j + 1)

HasLimitMember(e) ==
    \E j \in 1..Len(e.members) : e.members[j].has_limittype

\* __parse_limit_types: the loop over the elements that have a member with
\* @limittype, from element number i on.
RECURSIVE parse_limit_types(_, _, _)
parse_limit_types(limits, types, i) ==
    IF i > Len(types)
    THEN [out |-> "ok", limits |-> limits]
    ELSE IF ~HasLimitMember(types[i])
    THEN parse_limit_types(limits, types, i + 1)
    ELSE IF types[i].category # "struct" \/ ~types[i].has_name
    THEN [out |-> "XmlError", limits |-> limits]
    ELSE LET r == limit_members(limits, types[i], 1)
         IN IF r.out # "ok" THEN r
            ELSE parse_limit_types(r.limits, types, i + 1)

\* __parse_aliases: self.aliases[name] = alias for every element with
\* both attributes.
RECURSIVE parse_aliases(_, _)
parse_aliases(aliases, entries) ==
    IF entries = <<>> THEN aliases
    ELSE LET e == Head(entries)
         IN parse_aliases(
                [n \in DOMAIN aliases \cup {e.name} |->
                    IF n = e.name THEN e.alias ELSE aliases[n]],
                Tail(entries))

\* The elements of a document that carry @name and @alias, in document
\* order: the elements outside <types>, then the type elements.
AliasElements(doc) ==
    LET Aliased(e) == e.has_name /\ e.has_alias
        ts == SelectSeq(doc.types, Aliased)
    IN doc.aliases \o [k \in 1..Len(ts) |-> [name |-> ts[k].name, alias |-> ts[k].alias]]

\* self.struct_info[struct_name] = StructInfo(...)
StructInfoPut(tbl, info) ==
    IF DictHas(tbl, info.name)
    THEN [i \in 1..Len(tbl) |-> IF tbl[i].name = info.name THEN info ELSE tbl[i]]
    ELSE Append(tbl, info)

\* member_infos[name] = MemberInfo(...) for every member of a struct.
RECURSIVE member_infos(_, _)
member_infos(members, acc) ==
    IF members = <<>> THEN acc
    ELSE LET m == Head(members)
             info == MemberInfo(m.name_text, m.type_text)
         IN member_infos(
                Tail(members),
                IF DictHas(acc, info.name)
                THEN [i \in 1..Len(acc) |->
                         IF acc[i].name = info.name THEN info ELSE acc[i]]
                ELSE Append(acc, info))

\* __parse_struct_info: the loop over the struct-categorized type elements.
RECURSIVE parse_struct_info(_, _, _)
parse_struct_info(tbl, types, i) ==
    IF i > Len(types)
    THEN [out |-> "ok", struct_info |-> tbl]
    ELSE LET e == types[i]
         IN IF e.category # "struct"
            THEN parse_struct_info(tbl, types, i + 1)
            ELSE IF ~e.has_name
            THEN [out |-> "XmlError", struct_info |-> tbl]
            ELSE IF e.has_alias
            THEN parse_struct_info(tbl, types, i + 1)
            ELSE IF \E j \in 1..Len(e.members) : ~MemberShapeOk(e.members[j])
            THEN [out |-> "XmlError", struct_info |-> tbl]
            ELSE parse_struct_info(
                     StructInfoPut(tbl, StructInfo(e.name,
                                                   member_infos(e.members, <<>>))),
                     types, i + 1)

\* add_file on a parsed document: the model after the call and the outcome.
add_file(x, doc) ==
    IF doc.root # "registry"
    THEN [out |-> "XmlError", xml |-> x]
    ELSE LET x1 == [x EXCEPT !.aliases = parse_aliases(@, AliasElements(doc))]
             l  == parse_limit_types(x1.limits, doc.types, 1)
             x2 == [x1 EXCEPT !.limits = l.limits]
         IN IF l.out # "ok"
            THEN [out |-> l.out, xml |-> x2]
            ELSE LET t == parse_struct_info(x2.struct_info, doc.types, 1)
                 IN [out |-> t.out,
                     xml |-> [x2 EXCEPT !.struct_info = t.struct_info]]

\* xml.add_file(file)
AddFile(doc) ==
    /\ XmlReady
    /\ LET r == add_file(xml, doc)
       IN /\ xml' = r.xml
          /\ xout' = [op |-> "add_file",
                      pc |-> IF r.out = "ok" THEN "returned" ELSE "raised",
                      doc |-> doc, pre |-> xml, err |-> r.out]
    /\ UNCHANGED <<storeVars, discVars, depVars, docVars>>

\* The documents given to add_file.  A member element is its leading child
\* tags, the texts of <type> and <name>, and its limittype attribute as the
\* pieces str.split(",") cuts it into (an empty attribute is one empty
\* piece).
XmlMember(children, type_text, name_text, has_limittype, limittype) ==
    [children |-> children, type_text |-> type_text, name_text |-> name_text,
     has_limittype |-> has_limittype, limittype |-> limittype]

XmlType(category, has_name, name, has_alias, alias, members) ==
    [category |-> category, has_name |-> has_name, name |-> name,
     has_alias |-> has_alias, alias |-> alias, members |-> members]

XmlDoc(root, aliases, types) ==
    [root |-> root, aliases |-> aliases, types |-> types]

GoodChildren == <<"type", "name">>

XmlTags == {"max", "pot", "bogus"}

TagLists ==
    UNION {[1..n -> XmlTags] : n \in 1..MaxTags}
    \cup {<<"">>, <<"not">>, <<"not_">>, <<"not", "mul">>, <<"max", "">>}

\* <type category="struct" name="VkS"> with one member carrying the
\* limittype under study.
LimitDoc(tags) ==
    XmlDoc("registry", <<>>,
           <<XmlType("struct", TRUE, "VkS", FALSE, "",
                     <<XmlMember(GoodChildren, "uint32_t", "maxA", TRUE, tags)>>)>>)

PlainMember == XmlMember(GoodChildren, "float", "plainB", FALSE, <<>>)

OtherDocs ==
    { \* the root element is not <registry>
      XmlDoc("comment", <<[name |-> "OldX", alias |-> "NewX"]>>,
             <<XmlType("struct", TRUE, "VkS", FALSE, "",
                       <<XmlMember(GoodChildren, "uint32_t", "maxA", TRUE, <<"max">>)>>)>>),
      \* aliases, one of them a struct type
      XmlDoc("registry", <<[name |-> "OldX", alias |-> "NewX"]>>,
             <<XmlType("struct", TRUE, "VkT", TRUE, "VkS", <<>>)>>),
      \* a good member, then a member with an unknown tag
      XmlDoc("registry", <<[name |-> "NewX", alias |-> "Newest"]>>,
             <<XmlType("struct", TRUE, "VkS", FALSE, "",
                       <<XmlMember(GoodChildren, "uint64_t", "maxA", TRUE, <<"min", "mul">>),
                         XmlMember(GoodChildren, "uint32_t", "maxC", TRUE, <<"bogus">>)>>)>>),
      \* two good members, one without limittype
      XmlDoc("registry", <<>>,
             <<XmlType("struct", TRUE, "VkS", FALSE, "",
                       <<XmlMember(GoodChildren, "uint32_t", "maxC", TRUE, <<"not">>),
                         PlainMember>>)>>),
      \* a struct without @name
      XmlDoc("registry", <<>>,
             <<XmlType("struct", FALSE, "", FALSE, "",
                       <<XmlMember(GoodChildren, "uint32_t", "maxA", TRUE, <<"max">>)>>)>>),
      \* a member with @limittype in a type that is not a struct
      XmlDoc("registry", <<>>,
             <<XmlType("union", TRUE, "VkU", FALSE, "",
                       <<XmlMember(GoodChildren, "uint32_t", "maxA", TRUE, <<"max">>)>>)>>),
      \* a member with @limittype whose children are not <type>, <name>
      XmlDoc("registry", <<>>,
             <<XmlType("struct", TRUE, "VkS", FALSE, "",
                       <<XmlMember(<<"name", "type">>, "uint32_t", "maxA", TRUE, <<"max">>)>>)>>),
      \* a good limit, then a struct whose plain member is malformed
      XmlDoc("registry", <<>>,
             <<XmlType("struct", TRUE, "VkS", FALSE, "",
                       <<XmlMember(GoodChildren, "uint32_t", "maxC", TRUE, <<"max", "pot">>)>>),
               XmlType("struct", TRUE, "VkT", FALSE, "",
                       <<XmlMember(<<"type">>, "float", "plainB", FALSE, <<>>)>>)>>) }

XmlDocs == {LimitDoc(tags) : tags \in TagLists} \cup OtherDocs

----------------------------------------------------------------------------
(* normalize_vk_names_deep *)

\* A value of a JSON tree: its type, the text of a scalar, and the items of
\* a container, each a key (empty for a sequence) and a value.  "other" is a
\* Python value of a type JSON does not have.
JValue(t, text, items) == [t |-> t, s |-> text, items |-> items]

JNull == JValue("null", "", <<>>)

JBool(b) == JValue("bool", b, <<>>)

JNum(n) == JValue("num", n, <<>>)

JStr(x) == JValue("str", x, <<>>)

JOther == JValue("other", "", <<>>)

JItem(k, v) == [k |-> k, v |-> v]

JList(vals) == JValue("list", "", [i \in 1..Len(vals) |-> JItem("", vals[i])])

JDict(items) == JValue("dict", "", items)

\* f"{json_path}.{k}" and f"{json_path}[{i}]": the path grows by a segment.
PathKey(path, k) == Append(path, [sep |-> ".", key |-> k, index |-> 0])

PathIndex(path, i) == Append(path, [sep |-> "[", key |-> "", index |-> i])

\* Storing a value under a key of the dict being built: a key already there
\* keeps its position and takes the new value.
DeepPut(items, k, v) ==
    IF \E i \in 1..Len(items) : items[i].k = k
    THEN [i \in 1..Len(items) |-> IF items[i].k = k THEN JItem(k, v) ELSE items[i]]
    ELSE Append(items, JItem(k, v))

\* elif isinstance(obj, str): return normalize_vk_name(xml, obj); None,
\* booleans and numbers are returned as they are.
DeepLeaf(aliases, obj) ==
    IF obj.t = "str" THEN JStr(normalize_vk_name(aliases, obj.s)) ELSE obj

\* The call, with the comprehension over the items of a container unrolled:
\* deep_items handles the items from number i on, acc holding the result
\* built so far.  An exception raised for an item ends the call.
RECURSIVE normalize_vk_names_deep(_, _, _)
RECURSIVE deep_items(_, _, _, _, _)
deep_items(aliases, obj, json_path, i, acc) ==
    IF i > Len(obj.items)
    THEN [out |-> "ok", value |-> JValue(obj.t, "", acc), path |-> <<>>]
    ELSE LET k == obj.items[i].k
             r == normalize_vk_names_deep(
                      aliases, obj.items[i].v,
                      IF obj.t = "dict" THEN PathKey(json_path, k)
                      ELSE PathIndex(json_path, i - 1))
         IN IF r.out # "ok" THEN r
            ELSE deep_items(aliases, obj, json_path, i + 1,
                            IF obj.t = "dict"
                            THEN DeepPut(acc, normalize_vk_name(aliases, k), r.value)
                            ELSE Append(acc, JItem("", r.value)))

normalize_vk_names_deep(aliases, obj, json_path) ==
    CASE obj.t \in {"dict", "list"} ->
            deep_items(aliases, obj, json_path, 1, <<>>)
      [] obj.t \in {"null", "str", "bool", "num"} ->
            [out |-> "ok", value |-> DeepLeaf(aliases, obj), path |-> <<>>]
      [] OTHER ->
            [out |-> "ValueError", value |-> JNull, path |-> json_path]

\* The caller holds a tree and has not called yet.
Holding(obj) == [op |-> "none", pc |-> "idle", input |-> obj]

\* normalize_vk_names_deep(xml, json_obj, "") on the tree the caller holds:
\* the function assigns to nothing the tree is made of.
NormalizeDeep ==
    /\ xout.pc = "idle"
    /\ LET r == normalize_vk_names_deep(xml.aliases, xout.input, <<>>)
       IN xout' = [op |-> "normalize_vk_names_deep",
                   pc |-> IF r.out = "ok" THEN "returned" ELSE "raised",
                   before |-> xout.input, input |-> xout.input,
                   err |-> r.out, value |-> r.value, path |-> r.path]
    /\ UNCHANGED xml
    /\ UNCHANGED <<storeVars, discVars, depVars, docVars>>

\* The alias tables of the deep normalizer: none, the chain of the
\* documentation's example, and two names with the same replacement.
DeepAliasTables ==
    { <<>>,
      [n \in {"OldX", "NewX"} |-> IF n = "OldX" THEN "NewX" ELSE "Newest"],
      [n \in {"OldX", "VkY"} |-> "NewX"] }

DeepKeys == {"OldX", "NewX", "VkY"}

DeepLeaves ==
    {JNull, JBool("true"), JNum("1"), JStr("OldX"), JStr("VkY"), JOther}

\* The containers that occur below the top of a tree.
DeepInner ==
    { JList(<<JStr("OldX"), JNum("1")>>),
      JList(<<JNull, JOther>>),
      JDict(<<JItem("OldX", JStr("NewX"))>>),
      JDict(<<JItem("VkY", JBool("true")), JItem("NewX", JOther)>>),
      JDict(<<JItem("NewX", JNum("1")), JItem("OldX", JNum("2"))>>),
      JList(<<JList(<<JStr("OldX")>>), JDict(<<JItem("OldX", JList(<<JOther>>))>>)>>) }

DeepElements == DeepLeaves \cup DeepInner

\* The trees: a scalar, or a sequence or mapping of up to MaxItems elements;
\* the keys of a mapping are distinct.
DeepTrees ==
    DeepLeaves
    \cup {JList(vals) :
             vals \in UNION {[1..n -> DeepElements] : n \in 0..MaxItems}}
    \cup {JDict([i \in 1..Len(ks) |-> JItem(ks[i], vals[i])]) :
             <<ks, vals>> \in UNION {{kv \in [1..n -> DeepKeys] \X [1..n -> DeepElements] :
                                         Injective(kv[1])} : n \in 0..MaxItems}}

----------------------------------------------------------------------------
(* struct_to_json_obj *)

JHas(obj, k) == \E i \in 1..Len(obj.items) : obj.items[i].k = k

\* struct_obj.get(member_name): None when the key is missing.
JGet(obj, k) ==
    IF JHas(obj, k)
    THEN obj.items[CHOOSE i \in 1..Len(obj.items) : obj.items[i].k = k].v
    ELSE JNull

\* The call, with the loop over the members unrolled: struct_members
\* handles the members from number i on, acc being new_obj so far.  A
\* struct_obj that is not a dict has no get and no keys.  debug is the
\* module's debug flag.
RECURSIVE struct_to_json_obj(_, _, _, _)
RECURSIVE struct_members(_, _, _, _, _, _)
struct_members(x, members, struct_obj, debug, i, acc) ==
    IF i > Len(members)
    THEN IF debug /\ struct_obj.t # "dict"
         THEN [out |-> "AttributeError", value |-> JNull]
         ELSE [out |-> "ok", value |-> JDict(acc)]
    ELSE IF struct_obj.t # "dict"
    THEN [out |-> "AttributeError", value |-> JNull]
    ELSE LET member_name == members[i].name
             member_value == JGet(struct_obj, member_name)
             member_type_normal ==
                 normalize_vk_name(x.aliases, members[i].base_type)
         IN IF member_value = JNull
            THEN struct_members(x, members, struct_obj, debug, i + 1, acc)
            ELSE IF DictHas(x.struct_info, member_type_normal)
            THEN LET r == struct_to_json_obj(x, member_type_normal,
                                             member_value, debug)
                 IN IF r.out # "ok" THEN r
                    ELSE struct_members(x, members, struct_obj, debug, i + 1,
                                        Append(acc, JItem(member_name, r.value)))
            ELSE struct_members(x, members, struct_obj, debug, i + 1,
                                Append(acc, JItem(member_name, member_value)))

struct_to_json_obj(x, struct_name, struct_obj, debug) ==
    LET struct_name_normal == normalize_vk_name(x.aliases, struct_name)
    IN IF ~DictHas(x.struct_info, struct_name_normal)
       THEN [out |-> "ok", value |-> struct_obj]
       ELSE struct_members(
                x,
                DictGet(x.struct_info, struct_name_normal).members,
                struct_obj, debug, 1, <<>>)

\* The caller holds a struct name and an instance and has not called yet.
HoldingStruct(struct_name, obj, debug) ==
    [op |-> "none", pc |-> "idle", struct_name |-> struct_name, input |-> obj,
     debug |-> debug]

\* struct_to_json_obj(xml, struct_name, struct_obj)
StructToJson ==
    /\ xout.pc = "idle"
    /\ LET r == struct_to_json_obj(xml, xout.struct_name, xout.input, xout.debug)
       IN xout' = [op |-> "struct_to_json_obj",
                   pc |-> IF r.out = "ok" THEN "returned" ELSE "raised",
                   struct_name |-> xout.struct_name, input |-> xout.input,
                   debug |-> xout.debug, err |-> r.out, value |-> r.value]
    /\ UNCHANGED xml
    /\ UNCHANGED <<storeVars, discVars, depVars, docVars>>

\* The XML models of the struct specification: the layouts of the
\* documentation's example, without and with aliases for the struct names,
\* and a model that does not know the member's struct.
StructModels ==
    { [NoXml EXCEPT
          !.struct_info =
              << StructInfo("Foo", <<MemberInfo("a", "int"), MemberInfo("b", "Bar")>>),
                 StructInfo("Bar", <<MemberInfo("x", "int")>>) >>],
      [NoXml EXCEPT
          !.aliases = [n \in {"OldFoo", "OldBar"} |->
                          IF n = "OldFoo" THEN "Foo" ELSE "Bar"],
          !.struct_info =
              << StructInfo("Bar", <<MemberInfo("x", "int")>>),
                 StructInfo("Foo", <<MemberInfo("a", "int"),
                                     MemberInfo("b", "OldBar")>>) >>],
      [NoXml EXCEPT
          !.struct_info =
              << StructInfo("Foo", <<MemberInfo("a", "int"),
                                     MemberInfo("b", "Bar")>>) >>] }

StructNames == {"Foo", "OldFoo", "Bar", "Baz"}

StructKeys == {"a", "b", "extra"}

StructValues ==
    { JNum("1"), JNum("3"), JNull,
      JDict(<<JItem("x", JNum("1")), JItem("z", JNum("2"))>>),
      JDict(<<JItem("z", JNum("2"))>>),
      JList(<<JDict(<<JItem("x", JNum("1"))>>)>>) }

\* The instances: mappings of up to MaxItems members, in any order.
StructInstances ==
    {JDict([i \in 1..Len(ks) |-> JItem(ks[i], vals[i])]) :
        <<ks, vals>> \in UNION {{kv \in [1..n -> StructKeys] \X [1..n -> StructValues] :
                                    Injective(kv[1])} : n \in 0..MaxItems}}

----------------------------------------------------------------------------
(* Specifications: file discovery; the profile store; internal and         *)
(* recursive dependencies                                                   *)

DepIdle ==
    /\ ideps = NoIDeps
    /\ gdeps = NoGDeps
    /\ trav = NoTrav

StoreIdle ==
    /\ files = <<>>
    /\ profiles = <<>>
    /\ loaded = {}
    /\ iters = [i \in Iters |-> NoIter]
    /\ last = NoLast

DiscIdle ==
    /\ roots = <<>>
    /\ dpc = [glob |-> Len(Globs) + 1, root |-> 1, seen |-> {}]
    /\ vkxml_files = <<>>
    /\ profiles_files = <<>>
    /\ profiles_schema_files = <<>>
    /\ vkq = NoVkq

DocIdle ==
    /\ trim = NoTrim
    /\ pf = NoPf

XmlIdle ==
    /\ xml = NoXml
    /\ xout = NoXout

InitDiscovery ==
    /\ roots \in [1..NumRoots -> RootContents]
    /\ dpc = [glob |-> 1, root |-> 1, seen |-> {}]
    /\ vkxml_files = <<>>
    /\ profiles_files = <<>>
    /\ profiles_schema_files = <<>>
    /\ vkq = NoVkq
    /\ StoreIdle
    /\ DepIdle
    /\ DocIdle
    /\ XmlIdle

NextDiscovery ==
    \/ CollectFile
    \/ NextRoot
    \/ \E missing_ok \in BOOLEAN : GetVkXmlFile(missing_ok)

SpecDiscovery == InitDiscovery /\ [][NextDiscovery]_vars

\* The stores of the store specification: one name list per file.  The
\* operations never look into a name, so of the stores that differ only by
\* a renaming of the profiles one is kept: the one whose names first occur
\* in the order VP_a, VP_b, VP_c.
RECURSIVE Flatten(_)
Flatten(lists) ==
    IF lists = <<>> THEN <<>> ELSE Head(lists) \o Flatten(Tail(lists))

FirstAt(seq, n) ==
    IF \E k \in 1..Len(seq) : seq[k] = n
    THEN CHOOSE k \in 1..Len(seq) : seq[k] = n /\ \A j \in 1..(k - 1) : seq[j] # n
    ELSE Len(seq) + 1

NamesInOrder(seq) ==
    /\ FirstAt(seq, "VP_a") <= FirstAt(seq, "VP_b")
    /\ FirstAt(seq, "VP_b") <= FirstAt(seq, "VP_c")

Stores ==
    {names \in [1..NumFiles -> NameLists] : NamesInOrder(Flatten(names))}

Init ==
    /\ \E names \in Stores :
          files = [i \in 1..NumFiles |-> StoreFile(i, names[i])]
    /\ profiles = <<>>
    /\ loaded = {}
    /\ iters = [i \in Iters |-> NoIter]
    /\ last = NoLast
    /\ DiscIdle
    /\ DepIdle
    /\ DocIdle
    /\ XmlIdle

Next ==
    \/ \E i \in Iters : IterNew(i)
    \/ \E i \in Iters : IterNext(i)
    \/ \E name \in LookupNames, missing_ok \in BOOLEAN : GetProfile(name, missing_ok)

Spec == Init /\ [][Next]_vars

InitIDeps ==
    /\ \E defined \in DefinedSets, refs \in RefLists, c \in 1..Len(CapTables) :
          /\ \A k \in 1..Len(refs) : refs[k][1] \in defined
          /\ files = <<DocFile(1, defined, refs, CapTables[c])>>
    /\ profiles = <<>>
    /\ loaded = {}
    /\ iters = [i \in Iters |-> NoIter]
    /\ last = NoLast
    /\ DiscIdle
    /\ DepIdle
    /\ DocIdle
    /\ XmlIdle

NextIDeps ==
    \E name \in StartNames, debug \in BOOLEAN : InternalDeps(1, name, debug)

SpecIDeps == InitIDeps /\ [][NextIDeps]_vars

InitGDeps ==
    /\ \E owner \in [ProfileNames -> 0..NumFiles], refs \in StoreRefLists :
          /\ \A k \in 1..Len(refs) : owner[refs[k][1]] # 0
          /\ files = [i \in 1..NumFiles |-> OwnedFile(i, owner, refs)]
    /\ profiles = <<>>
    /\ loaded = {}
    /\ iters = [i \in Iters |-> NoIter]
    /\ last = NoLast
    /\ DiscIdle
    /\ DepIdle
    /\ DocIdle
    /\ XmlIdle

NextGDeps ==
    \E name \in LookupNames, debug \in BOOLEAN : RecursiveDeps(name, debug)

SpecGDeps == InitGDeps /\ [][NextGDeps]_vars

\* The traversal in steps.
NextTraverse ==
    \/ \E name \in LookupNames, debug \in BOOLEAN : TraverseCall(name, debug)
    \/ TraverseStep

\* The stores of the traversal: every profile is defined by some file, and
\* the references are among the names that are looked up.
InitTraverse ==
    /\ \E owner \in [ProfileNames -> 1..NumFiles], refs \in StoreRefLists :
          files = [i \in 1..NumFiles |-> OwnedFile(i, owner, refs)]
    /\ profiles = <<>>
    /\ loaded = {}
    /\ iters = [i \in Iters |-> NoIter]
    /\ last = NoLast
    /\ DiscIdle
    /\ DepIdle
    /\ DocIdle
    /\ XmlIdle

SpecTraverse == InitTraverse /\ [][NextTraverse]_vars

\* The interpreter keeps running a call that has been made: weak fairness
\* of TraverseStep, written out with the enabling condition of the step,
\* which is that the call is in its loop.
TraverseFairness ==
    []<>(trav.pc # "loop") \/ []<><<TraverseStep>>_vars

SpecTraverseFair == SpecTraverse /\ TraverseFairness

\* The documents that are trimmed: a profiles file with its top-level
\* "capabilities" mapping, whose entries are capability sets.
CapSet(n) == [name |-> n, body |-> <<"capability set", n>>]

TopCapTables ==
    << [has |-> TRUE,
        caps |-> <<CapSet("cap_00"), CapSet("cap_01"), CapSet("cap_02"),
                   CapSet("cap_03"), CapSet("cap_04"), CapSet("cap_05"),
                   CapSet("cap_06"), CapSet("cap_07"), CapSet("cap_08")>>],
       [has |-> TRUE,
        caps |-> <<CapSet("cap_07"), CapSet("cap_03"), CapSet("cap_00")>>],
       [has |-> FALSE, caps |-> <<>>] >>

TrimRefLists ==
    LET Pairs == RefSources \X RefTargets
        Rank(n) == CHOOSE k \in 1..Len(DocNames) : DocNames[k] = n
    IN {r \in UNION {[1..n -> Pairs] : n \in 0..MaxTrimRefs} :
           \A i \in 1..(Len(r) - 1) : Rank(r[i][1]) <= Rank(r[i + 1][1])}

TrimFile(i, defined, refs, caps, top) ==
    [name |-> FileName(i),
     profiles |-> DocFile(i, defined, refs, caps).profiles,
     capabilities |-> top.caps,
     has_capabilities |-> top.has]

InitTrim ==
    /\ \E defined \in DefinedSets, refs \in TrimRefLists,
          c \in 1..Len(CapTables), t \in 1..Len(TopCapTables) :
          /\ \A k \in 1..Len(refs) : refs[k][1] \in defined
          /\ files = <<TrimFile(1, defined, refs, CapTables[c], TopCapTables[t])>>
    /\ profiles = <<>>
    /\ loaded = {}
    /\ iters = [i \in Iters |-> NoIter]
    /\ last = NoLast
    /\ DiscIdle
    /\ DepIdle
    /\ DocIdle
    /\ XmlIdle

NextTrim ==
    \E name \in StartNames, debug \in BOOLEAN : Trim(1, name, debug)

SpecTrim == InitTrim /\ [][NextTrim]_vars

InitData ==
    /\ \E content \in FileContents : pf = NewProfilesFile(content)
    /\ trim = NoTrim
    /\ StoreIdle
    /\ DiscIdle
    /\ DepIdle
    /\ XmlIdle

NextData == \E k \in 1..Len(DataOps) : DataAccess(k)

SpecData == InitData /\ [][NextData]_vars

InitNormalize ==
    /\ \E t \in AliasTables : xml = [NoXml EXCEPT !.aliases = t]
    /\ xout = NoXout
    /\ StoreIdle
    /\ DiscIdle
    /\ DepIdle
    /\ DocIdle

NextNormalize ==
    \/ \E name \in VkNames : NormalizeCall(name)
    \/ NormalizeAgain
    \/ NormalizeStep

SpecNormalize == InitNormalize /\ [][NextNormalize]_vars

\* A call that is in progress keeps running: the interpreter executes the
\* next iteration of the loop.
SpecNormalizeFair == SpecNormalize /\ WF_vars(NormalizeStep)

InitDeep ==
    /\ \E t \in DeepAliasTables : xml = [NoXml EXCEPT !.aliases = t]
    /\ \E obj \in DeepTrees : xout = Holding(obj)
    /\ StoreIdle
    /\ DiscIdle
    /\ DepIdle
    /\ DocIdle

NextDeep == NormalizeDeep

SpecDeep == InitDeep /\ [][NextDeep]_vars

InitStruct ==
    /\ xml \in StructModels
    /\ \E n \in StructNames, obj \in StructInstances, debug \in BOOLEAN :
          xout = HoldingStruct(n, obj, debug)
    /\ StoreIdle
    /\ DiscIdle
    /\ DepIdle
    /\ DocIdle

NextStruct == StructToJson

SpecStruct == InitStruct /\ [][NextStruct]_vars

InitXml ==
    /\ StoreIdle
    /\ DiscIdle
    /\ DepIdle
    /\ DocIdle
    /\ XmlIdle

NextXml == \E doc \in XmlDocs : AddFile(doc)

SpecXml == InitXml /\ [][NextXml]_vars

----------------------------------------------------------------------------
(* Properties of file discovery *)

FileTypes == {"vkxml", "profiles", "profiles_schema"}

Collected(type) ==
    CASE type = "vkxml"           -> vkxml_files
      [] type = "profiles"        -> profiles_files
      [] type = "profiles_schema" -> profiles_schema_files

\* The registry files of one type that root r offers.
Offered(type, r) ==
    {RegistryFile(type, r, e) : e \in
        {e \in roots[r] :
            /\ e.isfile
            /\ \E k \in 1..Len(Globs) :
                  Globs[k].type = type /\ GlobMatches(Globs[k].glob, e)
            /\ type = "profiles" => ProfilesNameMatches(e)}}

OfferedKeys(type) ==
    {f.name : f \in UNION {Offered(type, r) : r \in 1..Len(roots)}}

HighestPriorityRoot(type, name) ==
    CHOOSE r \in 1..Len(roots) :
        /\ \E f \in Offered(type, r) : f.name = name
        /\ \A q \in 1..(r - 1) : \A f \in Offered(type, q) : f.name # name

\* C1: after construction the store holds exactly one registry file per
\* key (type, name) that any root offers, and its path lies in the
\* highest-priority root that offers the key, whichever accepted suffix the
\* file has in each root.
C1_FirstRootWins ==
    DiscoveryDone =>
        \A type \in FileTypes : \A name \in OfferedKeys(type) :
            /\ Cardinality({k \in 1..Len(Collected(type)) :
                               Collected(type)[k].name = name}) = 1
            /\ DictGet(Collected(type), name).path.root =
                  HighestPriorityRoot(type, name)

\* Some root holds a regular file vk.xml at its top level.
VkXmlPresent ==
    \E r \in 1..Len(roots) : \E e \in roots[r] :
        /\ e.dir = "" /\ e.isfile
        /\ <<e.prefix, e.rest, e.suffix>> = VkXmlName

VkXmlAsked == vkq.valid

\* C18: get_vk_xml_file returns the discovered vk.xml; when no root holds
\* one it returns None under missing_ok and raises
\* RegistryFileNotFoundError otherwise.
C18_GetVkXmlFile ==
    VkXmlAsked =>
        IF VkXmlPresent
        THEN /\ vkq.out = "returned"
             /\ vkq.value = <<DictGet(vkxml_files, VkXmlName)>>
        ELSE vkq.out = IF vkq.missing_ok THEN "None"
                       ELSE "RegistryFileNotFoundError"

\* What the code does: the discovered file is returned, and a missing one
\* ends in AttributeError whatever missing_ok is.
GetVkXmlFileMissingIsAttributeError ==
    VkXmlAsked =>
        IF VkXmlPresent
        THEN /\ vkq.out = "returned"
             /\ vkq.value = <<DictGet(vkxml_files, VkXmlName)>>
        ELSE vkq.out = "AttributeError"

----------------------------------------------------------------------------
(* Properties of the profile store *)

NamesOf(file) == Range(iter_profile_names(file))

FileIds == 1..Len(files)

\* No profile name is defined by two profiles files of the store.
NoCollisions ==
    \A i, j \in FileIds : i # j => NamesOf(files[i]) \cap NamesOf(files[j]) = {}

\* C2: a load of a not-yet-loaded document that defines a name already in
\* the committed table fails, and leaves the committed table and the
\* loaded-document set exactly as they were before the load.
C2_LoadAllOrNothing ==
    last.log.valid =>
        /\ last.log.out = "raise"
        /\ last.log.post = last.log.pre

\* A failed load of a document that also defines a name not yet committed.
C2_Witness ==
    /\ last.log.valid
    /\ last.log.out = "raise"
    /\ last.log.pre.profiles # <<>>
    /\ \E i \in FileIds :
          /\ files[i].name = last.log.file
          /\ \E n \in NamesOf(files[i]) : ~DictHas(last.log.pre.profiles, n)
          /\ \E n \in NamesOf(files[i]) : DictHas(last.log.pre.profiles, n)

FullyCommitted(st, file) ==
    \A n \in NamesOf(file) : DictGet(st.profiles, n) = Profile(n, file)

\* C3 as stated: a document is loaded if and only if every profile name it
\* defines is committed and mapped to it; and a profile handed to a caller
\* has all its siblings committed.
C3_LoadedIffCommitted ==
    /\ \A i \in FileIds :
          files[i].name \in loaded <=> FullyCommitted(Store, files[i])
    /\ (last.out \in {"yield", "return"} /\ last.value # None) =>
          \A i \in FileIds : files[i].name = last.value.file =>
              FullyCommitted(last.post, files[i])

\* C3 amended: the equivalence holds for every document that defines at
\* least one profile; a document that defines none is never partly
\* committed, loaded or not.  A loaded document has all its names committed
\* to it, and a profile handed to a caller has all its siblings committed.
C3_Amended ==
    /\ \A i \in FileIds :
          /\ files[i].name \in loaded => FullyCommitted(Store, files[i])
          /\ NamesOf(files[i]) # {} =>
                (FullyCommitted(Store, files[i]) => files[i].name \in loaded)
          /\ \A k \in 1..Len(profiles) :
                profiles[k].file = files[i].name => files[i].name \in loaded
    /\ (last.out \in {"yield", "return"} /\ last.value # None) =>
          \A i \in FileIds : files[i].name = last.value.file =>
              FullyCommitted(last.post, files[i])

\* A generator abandoned right after the first profile of a two-profile
\* document was yielded: the sibling is already committed.
C3_Witness ==
    /\ last.op = "get_profile"
    /\ last.out = "return"
    /\ last.value # None
    /\ \E i \in Iters : iters[i].pc = "lazy" /\ iters[i].pending # <<>>
    /\ last.value.file \notin last.pre.loaded

\* C4: no two loaded documents define the same profile name, and a name
\* once committed keeps its owning document.
C4_NamesUnique ==
    /\ [](\A i, j \in FileIds :
             (i # j /\ files[i].name \in loaded /\ files[j].name \in loaded)
                => NamesOf(files[i]) \cap NamesOf(files[j]) = {})
    /\ [][\A k \in 1..Len(profiles) :
             /\ DictHas(profiles', profiles[k].name)
             /\ DictGet(profiles', profiles[k].name) = profiles[k]]_vars

\* A load was refused for redefining a name, while other documents loaded.
C4_Witness ==
    /\ last.log.valid
    /\ Len(profiles) >= 2
    /\ loaded # {}

\* The profiles an uninterrupted enumeration has to yield: the table as it
\* was when the enumeration started, then each document that was not loaded
\* then, in discovery order.
RECURSIVE ExpectedTail(_, _)
ExpectedTail(i, startLoaded) ==
    IF i > Len(files) THEN <<>>
    ELSE (IF files[i].name \in startLoaded THEN <<>>
          ELSE [k \in 1..Len(files[i].profiles) |->
                   [name |-> files[i].profiles[k].name, file |-> files[i].name]])
         \o ExpectedTail(i + 1, startLoaded)

AllProfiles ==
    {[name |-> n, file |-> files[i].name] : i \in FileIds, n \in ProfileNames}
    \cap UNION {{[name |-> n, file |-> files[i].name] : n \in NamesOf(files[i])}
                    : i \in FileIds}

\* C5: an enumeration run to completion with no other store operation in
\* between, on a store without name collisions, yields the profiles
\* committed at its start in commit order, then those of each document not
\* loaded at its start in discovery order: every profile exactly once.
C5_EnumerationOrder ==
    \A i \in Iters :
        (iters[i].pc = "done" /\ iters[i].clean /\ NoCollisions) =>
            /\ iters[i].yielded =
                  iters[i].start.profiles \o ExpectedTail(1, iters[i].start.loaded)
            /\ Injective(iters[i].yielded)
            /\ Range(iters[i].yielded) = AllProfiles

C5_Witness ==
    \E i \in Iters :
        /\ iters[i].pc = "done" /\ iters[i].clean /\ NoCollisions
        /\ iters[i].start.profiles # <<>>
        /\ Len(iters[i].yielded) > Len(iters[i].start.profiles)

\* An enumeration that has ended, by exhaustion or by an exception, with
\* get_profile calls made between its steps.
EndedInterleaved(i) ==
    /\ iters[i].pc \in {"done", "raised"}
    /\ ~iters[i].clean
    /\ NoCollisions

\* C22: on a store without name collisions, an enumeration whose steps are
\* interleaved with other store operations ends without raising and has
\* then yielded every committed profile exactly once.
C22_InterleavedEnumeration ==
    \A i \in Iters :
        EndedInterleaved(i) =>
            /\ iters[i].pc = "done"
            /\ Injective(iters[i].yielded)
            /\ Range(iters[i].yielded) = Range(profiles)

\* What the code does: an interleaved enumeration yields no profile twice
\* and only committed profiles; the only exception it raises is the
\* RuntimeError of a dict that grew while its values are iterated.
InterleavedEnumerationYieldsCommitted ==
    \A i \in Iters :
        EndedInterleaved(i) =>
            /\ Injective(iters[i].yielded)
            /\ Range(iters[i].yielded) \subseteq Range(profiles)
            /\ iters[i].pc = "raised" =>
                  (last.op = "next" => last.err.kind = "RuntimeError")

\* The first document, in discovery order, that is not loaded in st and
\* defines name (0 when there is none).
FirstDefining(st, name) ==
    LET D == {i \in FileIds : files[i].name \notin st.loaded
                              /\ name \in NamesOf(files[i])}
    IN IF D = {} THEN 0 ELSE CHOOSE i \in D : \A j \in D : i <= j

FileNames(S) == {files[k].name : k \in S}

\* The cases of get_profile: name is committed; name is defined by the
\* not-yet-loaded document d; name is defined nowhere.
GetProfileCases ==
    LET name == last.name
        d    == FirstDefining(last.pre, name)
    IN IF DictHas(last.pre.profiles, name)
       THEN /\ last.out = "return"
            /\ last.value = DictGet(last.pre.profiles, name)
            /\ last.post = last.pre
       ELSE IF d # 0
       THEN /\ last.out = "return"
            /\ last.value = [name |-> name, file |-> files[d].name]
            /\ last.post.loaded = last.pre.loaded \cup FileNames(1..d)
       ELSE /\ last.post.loaded = FileNames(FileIds)
            /\ last.missing_ok => (last.out = "return" /\ last.value = None)
            /\ ~last.missing_ok =>
                  (last.out = "raise" /\ last.err.kind = "ProfileNotFoundError")

\* C6 as stated: get_profile returns a committed profile without loading;
\* otherwise it loads documents in discovery order up to and including the
\* one that defines name and returns its profile, leaving later documents
\* unloaded; when no document defines name it loads every document and
\* returns None (missing_ok) or raises ProfileNotFoundError.
C6_GetProfile ==
    last.op = "get_profile" => GetProfileCases

\* The first document the call would load, up to document number upto, whose
\* load is refused: it is not loaded and defines a name that is committed or
\* defined by a not-yet-loaded document before it (0 when there is none).
FirstRefused(st, upto) ==
    LET B == {i \in 1..upto :
                /\ files[i].name \notin st.loaded
                /\ \E n \in NamesOf(files[i]) :
                      \/ DictHas(st.profiles, n)
                      \/ \E j \in 1..(i - 1) :
                            /\ files[j].name \notin st.loaded
                            /\ n \in NamesOf(files[j])}
    IN IF B = {} THEN 0 ELSE CHOOSE i \in B : \A j \in B : i <= j

\* C6 amended: the cases hold unless a document the call has to load
\* redefines an already committed name; then the call fails with the
\* error of that load, the documents before it are loaded and it and the
\* documents after it are left as they were.
C6_Amended ==
    last.op = "get_profile" =>
        LET d    == FirstDefining(last.pre, last.name)
            upto == IF d # 0 THEN d ELSE Len(files)
            bad  == FirstRefused(last.pre, upto)
        IN IF DictHas(last.pre.profiles, last.name) \/ bad = 0
           THEN GetProfileCases
           ELSE /\ last.out = "raise"
                /\ last.err.kind # "ProfileNotFoundError"
                /\ last.post.loaded = last.pre.loaded \cup FileNames(1..(bad - 1))

\* get_profile found the name in the first of two unloaded documents and
\* left the second one unloaded.
C6_Witness ==
    /\ last.op = "get_profile"
    /\ last.out = "return"
    /\ last.value # None
    /\ last.pre.loaded = {}
    /\ last.value.file = files[1].name
    /\ last.post.loaded = {files[1].name}
    /\ NamesOf(files[2]) # {}

\* C7: the failure raised for a redefinition is a ProfileRedefinitionError
\* that carries the originally committed Profile and the registry file of
\* the offending document.
C7_RedefinitionError ==
    last.log.valid =>
        /\ last.log.out = "raise"
        /\ last.log.err.kind = "ProfileRedefinitionError"
        /\ last.log.err.bad_reg_file = last.log.file
        /\ \E n \in ProfileNames :
              /\ DictHas(last.log.pre.profiles, n)
              /\ last.log.err.orig_profile = DictGet(last.log.pre.profiles, n)

----------------------------------------------------------------------------
(* Properties of the dependency resolver *)

\* The names a profile of the file lists in its "profiles" field.
RefDeps(file, n) == Range(DictGet(file.profiles, n).profiles)

\* The least set of names that contains S and, with every profile defined
\* in the file, the names that profile references.
RECURSIVE Reach(_, _)
Reach(file, S) ==
    LET T == S \cup UNION {RefDeps(file, n) : n \in S \cap NamesOf(file)}
    IN IF T = S THEN S ELSE Reach(file, T)

\* The strings of a capability element, nested lists flattened.
RECURSIVE Leaves(_)
Leaves(cap) ==
    CASE cap.t = "str"  -> {cap.s}
      [] cap.t = "list" -> UNION {Leaves(cap.l[k]) : k \in 1..Len(cap.l)}
      [] OTHER          -> {}

LeavesOf(seq) == UNION {Leaves(seq[k]) : k \in 1..Len(seq)}

ClosureLocal(file, start) == Reach(file, {start}) \cap NamesOf(file)

ClosureExternal(file, start) == Reach(file, {start}) \ NamesOf(file)

ClosureCaps(file, start) ==
    UNION {LeavesOf(DictGet(file.profiles, n).capabilities)
              \cup LeavesOf(DictGet(file.profiles, n).optionals)
           : n \in ClosureLocal(file, start)}

ExampleFile ==
    DocFile(1, Range(DocNames),
            << <<"VP_apple", "VP_banana">>,
               <<"VP_banana", "VP_canteloupe">>,
               <<"VP_banana", "VP_zebra">> >>,
            CapTables[1])

ExampleCaps ==
    {"cap_00", "cap_01", "cap_02", "cap_03", "cap_04", "cap_05", "cap_06"}

ExampleCall ==
    /\ ideps.valid
    /\ files = <<ExampleFile>>
    /\ ideps.start = "VP_apple"

DefiningFile(n) ==
    files[CHOOSE i \in FileIds : n \in NamesOf(files[i])]

DefinedInStore(n) == \E i \in FileIds : n \in NamesOf(files[i])

\* The least set of profiles that contains S and, for each of its members,
\* every external profile name of that member that the store defines.
RECURSIVE StoreReach(_)
StoreReach(S) ==
    LET T == S \cup {n \in UNION {ClosureExternal(DefiningFile(p), p) : p \in S} :
                        DefinedInStore(n)}
    IN IF T = S THEN S ELSE StoreReach(T)

ExpectedCapKeys(start) ==
    UNION {{<<p, c>> : c \in ClosureCaps(DefiningFile(p), p)}
              : p \in StoreReach({start})}

\* C10: for a start profile defined in the store,
\* get_profile_recursive_deps returns a caps mapping whose keys are exactly
\* the pairs (P, c) with P reachable from the start profile through
\* external names defined in the store and c a local capability of P.
C10_RecursiveDepsCaps ==
    (gdeps.valid /\ DefinedInStore(gdeps.start)) =>
        /\ gdeps.out = "ok"
        /\ {x.key : x \in gdeps.caps} = ExpectedCapKeys(gdeps.start)

\* What the code does establish: the key set is right whenever the call
\* returns.
RecursiveDepsCapsOnReturn ==
    (gdeps.valid /\ gdeps.out = "ok") =>
        {x.key : x \in gdeps.caps} = ExpectedCapKeys(gdeps.start)

\* The names a traversal from start references through external profile
\* names and that no document of the store defines.
ExpectedUndefined(start) ==
    {n \in UNION {ClosureExternal(DefiningFile(p), p) : p \in StoreReach({start})} :
        ~DefinedInStore(n)}

\* C11: a call of get_profile_recursive_deps on a defined start profile
\* does not fail because a transitively referenced profile name is defined
\* nowhere in the store: it returns, and undefined_profiles is exactly the
\* set of transitively referenced names that no document defines.  (A call
\* stopped by the internal-deps assertion is left aside.)
C11_UndefinedRecorded ==
    (gdeps.valid /\ DefinedInStore(gdeps.start)
                 /\ gdeps.err.kind # "AssertionError") =>
        /\ gdeps.out = "ok"
        /\ gdeps.undefined_profiles = ExpectedUndefined(gdeps.start)

\* What the code does: a call that reaches an undefined name raises
\* ProfileNotFoundError, and a call that returns has recorded none.
UndefinedNeverRecorded ==
    gdeps.valid =>
        /\ gdeps.undefined_profiles = {}
        /\ (DefinedInStore(gdeps.start) /\ gdeps.err.kind # "AssertionError"
                /\ ExpectedUndefined(gdeps.start) # {}) =>
              (gdeps.out = "raise" /\ gdeps.err.kind = "ProfileNotFoundError")

\* C20: in collect_profiles the assertion that a popped name is not yet
\* visited holds at every pop, whatever lists of names the "profiles"
\* fields of the document hold.
C20_AssertionHolds ==
    (ideps.valid /\ ideps.debug) => ideps.out # "AssertionError"

\* What the code does: the assertion holds when no profile of the document
\* lists more than one name, reference cycles included.
AssertionHoldsOnChains ==
    (/\ ideps.valid
     /\ \A k \in 1..Len(files[ideps.file].profiles) :
            Len(files[ideps.file].profiles[k].profiles) <= 1)
        => ideps.out # "AssertionError"

\* Every name a document of the store references is defined by some
\* document of the store.
AllReferencesDefined ==
    \A i \in FileIds : \A k \in 1..Len(files[i].profiles) :
        \A j \in 1..Len(files[i].profiles[k].profiles) :
            DefinedInStore(files[i].profiles[k].profiles[j])

Traversing == trav.pc = "loop"

\* The number of references the documents of the store hold.
RECURSIVE SumLens(_)
SumLens(lists) ==
    IF lists = <<>> THEN 0 ELSE Len(Head(lists)) + SumLens(Tail(lists))

NumReferences ==
    SumLens(Flatten([i \in 1..Len(files) |->
                       [k \in 1..Len(files[i].profiles) |->
                           files[i].profiles[k].profiles]]))

\* A call on a profile of the store has been made, and the store defines
\* every profile it references.
TraversalOnClosedStore ==
    /\ trav.pc # "idle"
    /\ DefinedInStore(trav.start)
    /\ AllReferencesDefined

\* C21: on a store in which every referenced profile is defined, a call of
\* get_profile_recursive_deps terminates: it stops only by returning with
\* an empty stack, never by an exception, and it runs its loop body no more
\* than once for the start profile and once for each reference.
C21_TraversalTerminates ==
    TraversalOnClosedStore =>
        /\ trav.pc # "raised"
        /\ trav.pc = "returned" => trav.stack = <<>>
        /\ trav.pops <= 1 + NumReferences

\* What the code does: the loop body runs a bounded number of times on
\* every store, a call that returns has emptied its stack, and on a store
\* with every reference defined the only exception is the assertion of
\* collect_profiles.
TraversalBounded ==
    /\ trav.pops <= 1 + NumReferences
    /\ trav.pc = "returned" => trav.stack = <<>>
    /\ (trav.pc = "raised" /\ TraversalOnClosedStore) =>
          (trav.debug /\ trav.err.kind = "AssertionError")

\* Under fairness the loop always ends, by the return or by an exception,
\* and with assertions disabled on such a store it returns.
TraversalEnds ==
    /\ Traversing ~> (trav.pc \in {"returned", "raised"})
    /\ (Traversing /\ AllReferencesDefined /\ ~trav.debug) ~>
          (trav.pc = "returned" /\ trav.stack = <<>>)

----------------------------------------------------------------------------
(* Properties of trim_to_profile *)

TrimReturned ==
    /\ trim.valid
    /\ trim.out = "ok"
    /\ DictHas(trim.pre.profiles, trim.start)

\* C12: when trim_to_profile(X) has returned for a profile X the document
\* defines, the internal dependencies of X computed on the trimmed document
\* have the same local_profile_names and local_cap_names as those computed
\* on the document before the call, "profiles" holds no name outside the
\* original local_profile_names, "capabilities" no name outside the
\* original local_cap_names, and every retained entry is the entry the
\* document had before.
C12_TrimRoundTrip ==
    TrimReturned =>
        LET post   == files[trim.file]
            before == get_profile_internal_deps(trim.pre, trim.start, trim.debug)
            after  == get_profile_internal_deps(post, trim.start, trim.debug)
        IN /\ before.out = "ok"
           /\ after.out = "ok"
           /\ after.local_profile_names = before.local_profile_names
           /\ after.local_cap_names = before.local_cap_names
           /\ \A k \in 1..Len(post.profiles) :
                 /\ post.profiles[k].name \in before.local_profile_names
                 /\ post.profiles[k] =
                       DictGet(trim.pre.profiles, post.profiles[k].name)
           /\ \A k \in 1..Len(post.capabilities) :
                 /\ post.capabilities[k].name \in before.local_cap_names
                 /\ post.capabilities[k] =
                       DictGet(trim.pre.capabilities, post.capabilities[k].name)

\* A trim that removed a profile and a capability set and kept two
\* profiles, one of which references a profile outside the document.
C12_Witness ==
    /\ TrimReturned
    /\ Len(files[trim.file].profiles) >= 2
    /\ Len(files[trim.file].profiles) < Len(trim.pre.profiles)
    /\ files[trim.file].capabilities # <<>>
    /\ Len(files[trim.file].capabilities) < Len(trim.pre.capabilities)
    /\ trim.deps.external_profile_names # {}

----------------------------------------------------------------------------
(* Properties of the name normalizer *)

\* The names reached from the names of S by following alias entries.
RECURSIVE AliasReach(_, _)
AliasReach(aliases, S) ==
    LET T == S \cup {aliases[n] : n \in S \cap DOMAIN aliases}
    IN IF T = S THEN S ELSE AliasReach(aliases, T)

\* No name is reached from its own alias.
Acyclic(aliases) ==
    \A n \in DOMAIN aliases : n \notin AliasReach(aliases, {aliases[n]})

\* The name at the end of the alias chain that starts at n.
ChainEnd(aliases, n) ==
    CHOOSE e \in AliasReach(aliases, {n}) : e \notin DOMAIN aliases

Normalizing == xout.op = "normalize_vk_name" /\ xout.pc = "loop"

Normalized == xout.op = "normalize_vk_name" /\ xout.pc = "returned"

\* C13: on an alias table without cycles every call of normalize_vk_name
\* returns, and the name it returns is the end of the alias chain that
\* starts at its input, a name without an alias entry.
C13_NormalizeTerminates ==
    /\ (Normalizing /\ Acyclic(xml.aliases)) ~> Normalized
    /\ []((Normalized /\ Acyclic(xml.aliases)) =>
             /\ xout.name = ChainEnd(xml.aliases, xout.input)
             /\ xout.name \notin DOMAIN xml.aliases)

\* The spec's example: with {OldX: NewX, NewX: Newest}, OldX gives Newest.
C13_Witness ==
    /\ Normalized
    /\ DOMAIN xml.aliases = {"OldX", "NewX"}
    /\ xml.aliases["OldX"] = "NewX"
    /\ xml.aliases["NewX"] = "Newest"
    /\ xout.input = "OldX"
    /\ xout.name = "Newest"

\* C14: a call that returns has returned its input unchanged if and only
\* if the input has no alias entry, and a call on a name that a call
\* returned returns that name.
C14_NormalizeFixedPoint ==
    Normalized =>
        /\ xout.name = xout.input <=> xout.input \notin DOMAIN xml.aliases
        /\ xout.again => xout.name = xout.input

\* The second call on the result of a call that followed two aliases.
C14_Witness ==
    /\ Normalized
    /\ xout.again
    /\ xout.input = "Newest"
    /\ xml.aliases = [n \in {"OldX", "NewX"} |->
                         IF n = "OldX" THEN "NewX" ELSE "Newest"]

\* The tree of the same shape in which every mapping key and every string
\* leaf is replaced by the end of its alias chain.
RECURSIVE ShapeNormalized(_, _)
ShapeNormalized(aliases, v) ==
    CASE v.t \in {"dict", "list"} ->
            JValue(v.t, "",
                   [i \in 1..Len(v.items) |->
                       JItem(IF v.t = "dict"
                             THEN ChainEnd(aliases, v.items[i].k) ELSE "",
                             ShapeNormalized(aliases, v.items[i].v))])
      [] v.t = "str" -> JStr(ChainEnd(aliases, v.s))
      [] OTHER -> v

\* The paths of the values of a tree whose type JSON does not have.
RECURSIVE OtherPaths(_, _)
OtherPaths(v, path) ==
    CASE v.t = "dict" ->
            UNION {OtherPaths(v.items[i].v, PathKey(path, v.items[i].k))
                      : i \in 1..Len(v.items)}
      [] v.t = "list" ->
            UNION {OtherPaths(v.items[i].v, PathIndex(path, i - 1))
                      : i \in 1..Len(v.items)}
      [] v.t = "other" -> {path}
      [] OTHER -> {}

DeepCalled == xout.op = "normalize_vk_names_deep"

DeepOutcome ==
    /\ xout.input = xout.before
    /\ OtherPaths(xout.input, <<>>) = {} =>
          /\ xout.pc = "returned"
          /\ xout.value = ShapeNormalized(xml.aliases, xout.input)
    /\ OtherPaths(xout.input, <<>>) # {} =>
          /\ xout.pc = "raised"
          /\ xout.err = "ValueError"
          /\ xout.path \in OtherPaths(xout.input, <<>>)

\* C15: normalize_vk_names_deep returns a tree of the shape of its input
\* in which every mapping key and string leaf is replaced by its
\* normalize_vk_name result, sequences keeping length and order and
\* numbers, booleans and null staying as they are; a tree with a value of
\* another type makes it fail with an error carrying the path of such a
\* value; and the call leaves the input tree as it was.
C15_DeepNormalize ==
    DeepCalled => DeepOutcome

\* Every mapping of the tree keeps its keys apart under normalization.
RECURSIVE KeysStayDistinct(_, _)
KeysStayDistinct(aliases, v) ==
    /\ v.t = "dict" =>
          Injective([i \in 1..Len(v.items) |-> ChainEnd(aliases, v.items[i].k)])
    /\ \A i \in 1..Len(v.items) : KeysStayDistinct(aliases, v.items[i].v)

\* What the code does establish: the stated outcome for every tree in which
\* no two keys of one mapping normalize to the same name.
DeepNormalizeDistinctKeys ==
    (DeepCalled /\ KeysStayDistinct(xml.aliases, xout.input)) => DeepOutcome

\* Every mapping and sequence of the output has as many entries as the one
\* of the input at the same position.
RECURSIVE SameEntryCounts(_, _)
SameEntryCounts(in, out) ==
    /\ in.t = out.t
    /\ Len(in.items) = Len(out.items)
    /\ \A i \in 1..Len(in.items) :
          SameEntryCounts(in.items[i].v, out.items[i].v)

DeepReturned == DeepCalled /\ xout.pc = "returned"

\* C24: normalize_vk_names_deep never loses an entry of a mapping: every
\* mapping of the tree it returns has as many entries as the mapping of
\* the input it was made from.
C24_NoEntryLost ==
    DeepReturned => SameEntryCounts(xout.input, xout.value)

\* What the code does: no entry is lost in a tree in which no two keys of
\* one mapping normalize to the same name, and otherwise one is.
EntryLostOnlyOnCollision ==
    DeepReturned =>
        (SameEntryCounts(xout.input, xout.value)
            <=> KeysStayDistinct(xml.aliases, xout.input))

----------------------------------------------------------------------------
(* Properties of struct_to_json_obj *)

KnownStruct(x, name) == DictHas(x.struct_info, ChainEnd(x.aliases, name))

LayoutOf(x, name) == DictGet(x.struct_info, ChainEnd(x.aliases, name)).members

\* The members of the layout that are keys of the instance, in the
\* layout's order; a member whose base type names a known struct is
\* replaced by the same construction on its value.
RECURSIVE ExpectedStruct(_, _, _)
ExpectedStruct(x, name, inst) ==
    IF ~KnownStruct(x, name) THEN inst
    ELSE LET Present(m) == JHas(inst, m.name)
             kept == SelectSeq(LayoutOf(x, name), Present)
         IN JDict([i \in 1..Len(kept) |->
                      JItem(kept[i].name,
                            IF KnownStruct(x, kept[i].base_type)
                            THEN ExpectedStruct(x, kept[i].base_type,
                                                JGet(inst, kept[i].name))
                            ELSE JGet(inst, kept[i].name))])

\* The value of every member whose base type names a known struct is a
\* mapping, at every level.
RECURSIVE StructsAreMappings(_, _, _)
StructsAreMappings(x, name, inst) ==
    KnownStruct(x, name) =>
        /\ inst.t = "dict"
        /\ \A k \in 1..Len(LayoutOf(x, name)) :
              LET m == LayoutOf(x, name)[k]
              IN (JHas(inst, m.name) /\ KnownStruct(x, m.base_type)) =>
                    StructsAreMappings(x, m.base_type, JGet(inst, m.name))

\* No member declared in the layout has the value null, at any level.
RECURSIVE NoNullMember(_, _, _)
NoNullMember(x, name, inst) ==
    (KnownStruct(x, name) /\ inst.t = "dict") =>
        \A k \in 1..Len(LayoutOf(x, name)) :
            LET m == LayoutOf(x, name)[k]
            IN JHas(inst, m.name) =>
                  /\ JGet(inst, m.name) # JNull
                  /\ KnownStruct(x, m.base_type) =>
                        NoNullMember(x, m.base_type, JGet(inst, m.name))

StructCalled ==
    /\ xout.op = "struct_to_json_obj"
    /\ StructsAreMappings(xml, xout.struct_name, xout.input)

StructOutcome ==
    /\ xout.pc = "returned"
    /\ xout.value = ExpectedStruct(xml, xout.struct_name, xout.input)

\* C16: struct_to_json_obj returns the instance unchanged when the
\* normalized struct name has no layout; otherwise it returns exactly the
\* members that are keys of the instance and declared in the layout, in the
\* layout's order, a member whose normalized base type names a known struct
\* being replaced by the struct-aware normalization of its value and every
\* other member copied as it is.
C16_StructToJson ==
    StructCalled => StructOutcome

\* What the code does establish: the stated result for every instance in
\* which no declared member has the value null.
StructToJsonNoNull ==
    (StructCalled /\ NoNullMember(xml, xout.struct_name, xout.input)) =>
        StructOutcome

\* The documentation's example: Foo {b: {x: 1, z: 2}, extra: 3} gives
\* {b: {x: 1}}.
StructExample ==
    (/\ xout.op = "struct_to_json_obj"
     /\ xout.struct_name = "Foo"
     /\ Len(xml.struct_info) = 2
     /\ xout.input = JDict(<<JItem("b", JDict(<<JItem("x", JNum("1")),
                                                JItem("z", JNum("2"))>>)),
                             JItem("extra", JNum("3"))>>)) =>
        xout.value = JDict(<<JItem("b", JDict(<<JItem("x", JNum("1"))>>))>>)

----------------------------------------------------------------------------
(* Properties of RegistryXML.add_file *)

\* The shape a limittype attribute is to have, as pieces of the attribute:
\* one or two tags, the first from the primary vocabulary, the second from
\* {mul, pot}.
PrimaryTags ==
    {"bitmask", "bits", "exact", "max", "min", "noauto", "not", "range",
     "struct"}

SecondaryTags == {"mul", "pot"}

TagListValid(tags) ==
    /\ Len(tags) \in {1, 2}
    /\ tags[1] \in PrimaryTags
    /\ Len(tags) = 2 => tags[2] \in SecondaryTags

\* The members with a limittype attribute of a document, with their struct.
LimitMembers(doc) ==
    {<<i, j>> \in (1..Len(doc.types)) \X (1..2) :
        /\ j <= Len(doc.types[i].members)
        /\ doc.types[i].members[j].has_limittype}

LimitOf(limits, key) ==
    IF DictHas(limits, key) THEN <<DictGet(limits, key)>> ELSE <<>>

AddFileCalled == xout.op = "add_file"

\* C17: after any sequence of add_file calls every recorded limit has one
\* or two tags, the first a primary tag and the second, if present, mul or
\* pot; a document with a member whose limittype has any other shape makes
\* add_file raise XmlError and leaves the limit of that member as it was
\* before the call; a document that is accepted records the tags of each
\* of its limittype members as written.
C17_LimitTagLists ==
    /\ \A k \in 1..Len(xml.limits) : TagListValid(xml.limits[k].limit_types)
    /\ AddFileCalled =>
          \A p \in LimitMembers(xout.doc) :
              LET e == xout.doc.types[p[1]]
                  m == e.members[p[2]]
                  key == <<e.name, m.name_text>>
              IN /\ ~TagListValid(m.limittype) =>
                      /\ xout.pc = "raised"
                      /\ xout.err = "XmlError"
                      /\ LimitOf(xml.limits, key) = LimitOf(xout.pre.limits, key)
                 /\ xout.pc = "returned" =>
                      /\ DictHas(xml.limits, key)
                      /\ DictGet(xml.limits, key).limit_types = m.limittype

\* A limit with two tags is on record and the last call was refused for a
\* member with three tags.
C17_Witness ==
    /\ AddFileCalled
    /\ xout.pc = "raised"
    /\ \E tags \in TagLists : Len(tags) = 3 /\ xout.doc = LimitDoc(tags)
    /\ \E k \in 1..Len(xml.limits) : Len(xml.limits[k].limit_types) = 2

AddFileFailed == AddFileCalled /\ xout.pc = "raised"

\* C23: when add_file fails with a validation error, the aliases, limits
\* and struct layouts are exactly what they were before the call.
C23_FailedAddFileUnchanged ==
    AddFileFailed => xml = xout.pre

DictNames(tbl) == {tbl[k].name : k \in 1..Len(tbl)}

\* What the code does: a call refused for its root tag changes nothing; any
\* other failed call keeps what it wrote before the failure, and no table
\* loses an entry.
FailedAddFileKeepsWrites ==
    AddFileFailed =>
        /\ xout.doc.root # "registry" => xml = xout.pre
        /\ (xout.doc.root = "registry" /\ AliasElements(xout.doc) # <<>>) =>
              \A k \in 1..Len(AliasElements(xout.doc)) :
                  AliasElements(xout.doc)[k].name \in DOMAIN xml.aliases
        /\ DOMAIN xout.pre.aliases \subseteq DOMAIN xml.aliases
        /\ DictNames(xout.pre.limits) \subseteq DictNames(xml.limits)
        /\ DictNames(xout.pre.struct_info) \subseteq DictNames(xml.struct_info)

----------------------------------------------------------------------------
(* Properties of ProfilesFile.data *)

\* C19: over any sequence of operations on a ProfilesFile the file is
\* parsed at most once.
C19_ParsedAtMostOnce == pf.parses <= 1

\* What the code does: a file is parsed again only while no parse has
\* produced a value other than null; then every operation parses it once.
ParsedOnceWhenValueCached ==
    /\ pf.data # "None" => pf.parses = 1
    /\ pf.data = "None" =>
          /\ pf.content \in {"none", "null", "malformed"} \/ pf.ops = 0
          /\ pf.parses = pf.ops

\* The files whose top-level JSON value is not a dict.
NonDictContents == {"list", "string", "number", "null"}

DataAccessed == pf.ops > 0

\* C25: an access to data returns a dict or fails; for a file whose
\* top-level value is not a dict every access fails with
\* ProfileValidationError, and the value is never returned.
C25_DataIsDictOrFails ==
    DataAccessed =>
        /\ pf.out = "returned" => pf.data = "dict"
        /\ pf.content \in NonDictContents => pf.out = "ProfileValidationError"

\* What the code does: the first access to such a file fails with
\* NameError; a value other than null is cached by then, and every later
\* access returns it; for null every access fails with NameError.
NonDictReturnedAfterFirstAccess ==
    (DataAccessed /\ pf.content \in NonDictContents) =>
        /\ pf.ops = 1 => pf.out = "NameError"
        /\ (pf.ops > 1 /\ pf.content # "null") =>
              (pf.out = "returned" /\ pf.data = pf.content)
        /\ pf.content = "null" => (pf.out = "NameError" /\ pf.data = "None")

====
